---- MODULE Spec2Model ----
(***************************************************************************)
(* A model of the NYC asthma failure map pipeline:                         *)
(*   - asthma_map/io_utils.py: atomic_write and the ways the pipeline      *)
(*     scripts write their output artifacts                    (Spec)      *)
(*   - scripts/04_merge_datasets.py: the dataset merger        (MergeSpec) *)
(*   - scripts/05_calculate_classes.py: calculate_terciles  (TercileSpec)  *)
(*     and the bivariate classifier main()                  (ClassifySpec) *)
(* Each specification draws its inputs in its own Init and leaves the      *)
(* variables of the other parts at their idle values.                      *)
(***************************************************************************)
EXTENDS Integers, Sequences, FiniteSets, TLC

VARIABLES
    fs,         \* canonical output paths: artifact name -> file content
    tmpdir,     \* the *.tmp files present, each beside the target it was made for
    pc,         \* per process: where it is inside a write
    job,        \* per process: the write it is doing or did last
    calls,      \* number of writes started so far (names the versions)
    er_under5,  \* merger input: ER rate rows, age 4 and under
    er_5to17,   \* merger input: ER rate rows, age 5 to 17
    pop_data,   \* merger input: child_population_by_uhf.csv rows
    providers,  \* merger input: providers_geocoded.csv rows
    merged,     \* merger output: the analysis rows (<<>> before the run)
    series,     \* calculate_terciles: the input series
    reverse,    \* calculate_terciles: the reverse flag
    terciles,   \* calculate_terciles: the returned series (<<>> before)
    gdf,        \* classifier: the analysis rows loaded by script 05
    classified, \* classifier: the rows after main() (<<>> before)
    qa,         \* classifier: the results of the log_qa_check calls
    stats,      \* script 06: the summary statistics of stats.json (<<>> before)
    provider_counts, \* aggregate_providers: the returned table (<<>> before)
    tracts,     \* script 03: the census tracts with centroid and population
    joined,     \* script 03: the result of the spatial join (<<>> before)
    unmatched,  \* script 03: the number of tracts the join did not match
    uhf_population,  \* script 03: child_population_by_uhf rows (<<>> before)
    npi_providers,   \* script 02: npi_providers_raw.json with geocoder answers
    geocoded,   \* script 02: the providers_geocoded table (<<>> before)
    report,     \* script 07: the result of correlation_analysis (<<>> before)
    holc,       \* script 07: what load_redlining_data found (<<>> before)
    saved,      \* script 07: the content of validation_report.json (<<>> before)
    listing,    \* clean_tmp_files: the files under the directory at the call
    dirfiles,   \* clean_tmp_files: the files under the directory now
    removed,    \* clean_tmp_files: the call's result (<<>> before the call)
    sidecar_args,  \* write_metadata_sidecar: the arguments of the call
    sidecar,    \* write_metadata_sidecar: returned path and written metadata
    RUN_ID,     \* logging_utils._RUN_ID: <<>> is None, <<k>> the k-th generated id
    generated,  \* number of generate_run_id calls of the process so far
    observed,   \* the run id each get_run_id / get_logger call saw, in call order
    loggers,    \* logging's registry: loggers created, with their JSONL handler
    script,  \* one script run: its writes, how many returned, where main is
    sidecars, \* which run wrote the metadata sidecar beside each data file
    registry,  \* fetch_npi_providers: the registry queried and the call's arguments
    skip,  \* fetch_npi_providers: skip
    all_results,  \* fetch_npi_providers: all_results
    fetched  \* fetch_npi_providers: how the call ended (<<>> while it runs)

ioVars == <<fs, tmpdir, pc, job, calls>>
mergeVars == <<er_under5, er_5to17, pop_data, providers, merged>>
tercileVars == <<series, reverse, terciles>>
classVars == <<gdf, classified, qa>>
exportVars == <<stats>>
aggregateVars == <<provider_counts>>
populationVars == <<tracts, joined, unmatched, uhf_population>>
geocodeVars == <<npi_providers, geocoded>>
validationVars == <<report, holc, saved>>
cleanVars == <<listing, dirfiles, removed>>
sidecarVars == <<sidecar_args, sidecar>>
runVars == <<RUN_ID, generated, observed, loggers>>
scriptVars == <<script, sidecars>>
fetchVars == <<registry, skip, all_results, fetched>>
utilVars == <<cleanVars, sidecarVars, runVars, scriptVars, fetchVars>>
laterVars == <<exportVars, aggregateVars, populationVars, geocodeVars,
               validationVars, utilVars>>
vars == <<fs, tmpdir, pc, job, calls, er_under5, er_5to17, pop_data,
          providers, merged, series, reverse, terciles, gdf, classified, qa,
          stats, provider_counts, tracts, joined, unmatched, uhf_population,
          npi_providers, geocoded, report, holc, saved, listing, dirfiles,
          removed, sidecar_args, sidecar,
          RUN_ID, generated, observed, loggers,
          script, sidecars,
          registry, skip, all_results, fetched>>

\* The parts of the pipeline that a specification does not look at stay at
\* these values.
IdleExport == stats = <<>>
IdleAggregate == provider_counts = <<>>
IdlePopulation ==
    tracts = <<>> /\ joined = <<>> /\ unmatched = 0 /\ uhf_population = <<>>
IdleGeocode == npi_providers = <<>> /\ geocoded = <<>>
IdleValidation == report = <<>> /\ holc = <<>> /\ saved = <<>>
IdleClean == listing = {} /\ dirfiles = {} /\ removed = <<>>
IdleSidecar == sidecar_args = <<>> /\ sidecar = <<>>
IdleRun == RUN_ID = <<>> /\ generated = 0 /\ observed = <<>> /\ loggers = {}
IdleScript == script = <<>> /\ sidecars = <<>>
IdleFetch == registry = <<>> /\ skip = 0 /\ all_results = <<>> /\ fetched = <<>>
IdleUtil == IdleClean /\ IdleSidecar /\ IdleRun /\ IdleScript /\ IdleFetch
IdleLater ==
    /\ IdleExport /\ IdleAggregate /\ IdlePopulation /\ IdleGeocode
    /\ IdleValidation /\ IdleUtil

(***************************************************************************)
(* Bounds of the model.                                                    *)
(***************************************************************************)
NumWriters == 2   \* concurrent callers of atomic_write on one target
MaxCalls == 2     \* writes started in one behaviour
Chunks == 2       \* write() calls a write function needs for a whole file

\* The pipeline is a single-threaded batch: one process runs the scripts.
Procs == {1}
CallIds == 1..MaxCalls

(***************************************************************************)
(* Missing values.  pandas NaN and float infinity are kept apart from the  *)
(* finite numbers, which are modelled as non-negative integers.            *)
(***************************************************************************)
NaN == 0 - 1
Inf == 0 - 2

(***************************************************************************)
(* PART 1.  Output writing.                                                *)
(***************************************************************************)

\* The output artifact each script writes, and the call that writes it.
Writes01 == {[path |-> "npi_providers_raw.json", how |-> "atomic_write"]}
Writes02 == {[path |-> "providers_geocoded.csv", how |-> "atomic_write"]}
Writes03 == {[path |-> "child_population_by_uhf.csv", how |-> "atomic_write"]}
Writes04 == {[path |-> "uhf_analysis_data.geojson", how |-> "atomic_write"]}
Writes05 == {[path |-> "uhf_classified.geojson", how |-> "atomic_write"]}
Writes06 == {[path |-> "neighborhoods.geojson", how |-> "open"],
             [path |-> "providers.geojson", how |-> "open"],
             [path |-> "stats.json", how |-> "atomic_write"]}
Writes07 == {[path |-> "validation_report.json", how |-> "open"]}

OutputWrites ==
    Writes01 \cup Writes02 \cup Writes03 \cup Writes04 \cup Writes05
        \cup Writes06 \cup Writes07

Artifacts == {w.path : w \in OutputWrites}
AtomicArtifacts == {w.path : w \in {v \in OutputWrites : v.how = "atomic_write"}}
DirectArtifacts == {w.path : w \in {v \in OutputWrites : v.how = "open"}}

\* A file is the version that wrote it and the number of chunks it holds;
\* version 0 is "no such file".
Absent == [ver |-> 0, n |-> 0]
WholeFile(v) == [ver |-> v, n |-> Chunks]
IsWhole(f) == f.ver # 0 /\ f.n = Chunks
IsPartial(f) == f.ver # 0 /\ f.n < Chunks

\* The complete file an earlier run of the pipeline left at a path.
PreviousRun == [ver |-> MaxCalls + 1, n |-> Chunks]

NoJob == [target |-> "", id |-> 0, via |-> "", before |-> Absent,
          temp |-> FALSE, failed |-> FALSE,
          outcome |-> "none"]

TmpOf(id) == {t \in tmpdir : t.id = id}
TmpExists(id) == TmpOf(id) # {}
TmpLen(id) == (CHOOSE t \in TmpOf(id) : TRUE).n

AllIdle == \A q \in Procs : pc[q] = "idle"

InitIO ==
    /\ fs \in {[a \in Artifacts |-> Absent], [a \in Artifacts |-> PreviousRun]}
    /\ tmpdir = {}
    /\ pc = [p \in Procs |-> "idle"]
    /\ job = [p \in Procs |-> NoJob]
    /\ calls = 0

\* io_utils.py:23-24: a call of atomic_write(target_path, write_func) begins.
AtomicWriteCall(p, a) ==
    /\ pc[p] = "idle"
    /\ calls < MaxCalls
    /\ calls' = calls + 1
    /\ job' = [job EXCEPT ![p] = [target |-> a, id |-> calls + 1,
                                  via |-> "atomic_write", before |-> fs[a],
                                  temp |-> FALSE, failed |-> FALSE,
                                  outcome |-> "none"]]
    /\ pc' = [pc EXCEPT ![p] = "mkstemp"]
    /\ UNCHANGED <<fs, tmpdir>>

\* io_utils.py:27-33: mkstemp creates a fresh, empty, uniquely named temp
\* file beside the target and its descriptor is closed.
Mkstemp(p) ==
    /\ pc[p] = "mkstemp"
    /\ tmpdir' = tmpdir \cup {[id |-> job[p].id, n |-> 0, target |-> job[p].target]}
    /\ job' = [job EXCEPT ![p].temp = TRUE]
    /\ pc' = [pc EXCEPT ![p] = "write"]
    /\ UNCHANGED <<fs, calls>>

\* io_utils.py:24-29: ensure_dir or mkstemp raises; this is before the try
\* block, no temp file exists, the error reaches the caller.
MkstempFails(p) ==
    /\ pc[p] = "mkstemp"
    /\ job' = [job EXCEPT ![p].outcome = "raised", ![p].failed = TRUE]
    /\ pc' = [pc EXCEPT ![p] = "idle"]
    /\ UNCHANGED <<fs, tmpdir, calls>>

WriteFuncStepInPlace(p) ==
    /\ pc[p] = "write"
    /\ TmpExists(job[p].id)
    /\ TmpLen(job[p].id) < Chunks
    /\ tmpdir' = (tmpdir \ TmpOf(job[p].id))
                    \cup {[id |-> job[p].id, n |-> TmpLen(job[p].id) + 1,
                          target |-> job[p].target]}
    /\ fs' = [fs EXCEPT ![job[p].target] =
                 [ver |-> job[p].id, n |-> TmpLen(job[p].id) + 1]]
    /\ UNCHANGED <<pc, job, calls>>

\* io_utils.py:34: write_func(temp_path, ...) writes one more chunk into
\* the temp file.
WriteFuncStep(p) ==
    /\ pc[p] = "write"
    /\ TmpExists(job[p].id)
    /\ TmpLen(job[p].id) < Chunks
    /\ tmpdir' = (tmpdir \ TmpOf(job[p].id))
                    \cup {[id |-> job[p].id, n |-> TmpLen(job[p].id) + 1,
                          target |-> job[p].target]}
    /\ UNCHANGED <<fs, pc, job, calls>>

\* io_utils.py:34-35: write_func returns after writing the whole file.
WriteFuncReturns(p) ==
    /\ pc[p] = "write"
    /\ TmpExists(job[p].id)
    /\ TmpLen(job[p].id) = Chunks
    /\ pc' = [pc EXCEPT ![p] = "replace"]
    /\ UNCHANGED <<fs, tmpdir, job, calls>>

\* io_utils.py:34,37: write_func raises part way.  "except Exception"
\* catches an Exception; a BaseException that is not an Exception
\* (KeyboardInterrupt, SystemExit) passes the handler and leaves the
\* function with the temp file still in place.
WriteFuncRaises(p, exc) ==
    /\ pc[p] = "write"
    /\ IF exc = "Exception"
         THEN /\ pc' = [pc EXCEPT ![p] = "except"]
              /\ job' = [job EXCEPT ![p].failed = TRUE]
         ELSE /\ pc' = [pc EXCEPT ![p] = "idle"]
              /\ job' = [job EXCEPT ![p].outcome = "raised", ![p].failed = TRUE]
    /\ UNCHANGED <<fs, tmpdir, calls>>

ReplaceByCopy(p) ==
    /\ pc[p] = "replace"
    /\ fs' = [fs EXCEPT ![job[p].target] =
                 [ver |-> job[p].id, n |-> TmpLen(job[p].id)]]
    /\ job' = [job EXCEPT ![p].outcome = "returned"]
    /\ pc' = [pc EXCEPT ![p] = "idle"]
    /\ UNCHANGED <<tmpdir, calls>>

\* io_utils.py:35-36: temp_path.replace(target_path) renames the temp file
\* over the target in one step and the call returns target_path.
Replace(p) ==
    /\ pc[p] = "replace"
    /\ fs' = [fs EXCEPT ![job[p].target] =
                 [ver |-> job[p].id, n |-> TmpLen(job[p].id)]]
    /\ tmpdir' = tmpdir \ TmpOf(job[p].id)
    /\ job' = [job EXCEPT ![p].outcome = "returned"]
    /\ pc' = [pc EXCEPT ![p] = "idle"]
    /\ UNCHANGED calls

\* io_utils.py:35,37: the rename raises OSError; nothing was renamed.
ReplaceFails(p) ==
    /\ pc[p] = "replace"
    /\ pc' = [pc EXCEPT ![p] = "except"]
    /\ job' = [job EXCEPT ![p].failed = TRUE]
    /\ UNCHANGED <<fs, tmpdir, calls>>

\* An except handler that removes every temp file beside the target.
ExceptCleanupAll(p) ==
    /\ pc[p] = "except"
    /\ tmpdir' = {t \in tmpdir : t.target # job[p].target}
    /\ job' = [job EXCEPT ![p].outcome = "raised"]
    /\ pc' = [pc EXCEPT ![p] = "idle"]
    /\ UNCHANGED <<fs, calls>>

\* io_utils.py:37-40: the handler unlinks the temp file if it exists and
\* re-raises.
ExceptCleanup(p) ==
    /\ pc[p] = "except"
    /\ tmpdir' = tmpdir \ TmpOf(job[p].id)
    /\ job' = [job EXCEPT ![p].outcome = "raised"]
    /\ pc' = [pc EXCEPT ![p] = "idle"]
    /\ UNCHANGED <<fs, calls>>

\* 06_export_for_web.py:110,177 and 07_validation.py:255:
\* open(path, "w") creates or truncates the canonical path itself.
OpenForWrite(p, a) ==
    /\ pc[p] = "idle"
    /\ calls < MaxCalls
    /\ calls' = calls + 1
    /\ job' = [job EXCEPT ![p] = [target |-> a, id |-> calls + 1,
                                  via |-> "open", before |-> fs[a],
                                  temp |-> FALSE, failed |-> FALSE,
                                  outcome |-> "none"]]
    /\ fs' = [fs EXCEPT ![a] = [ver |-> calls + 1, n |-> 0]]
    /\ pc' = [pc EXCEPT ![p] = "dump"]
    /\ UNCHANGED tmpdir

\* 06_export_for_web.py:111,178 and 07_validation.py:256: json.dump writes
\* one more chunk into the open canonical file.
DumpStep(p) ==
    /\ pc[p] = "dump"
    /\ fs[job[p].target].n < Chunks
    /\ fs' = [fs EXCEPT ![job[p].target].n = @ + 1]
    /\ UNCHANGED <<tmpdir, pc, job, calls>>

\* json.dump raises part way; the with block closes the file and the error
\* leaves the script.
DumpRaises(p) ==
    /\ pc[p] = "dump"
    /\ fs[job[p].target].n < Chunks
    /\ job' = [job EXCEPT ![p].outcome = "raised", ![p].failed = TRUE]
    /\ pc' = [pc EXCEPT ![p] = "idle"]
    /\ UNCHANGED <<fs, tmpdir, calls>>

\* The with block ends after the whole file was written.
CloseFile(p) ==
    /\ pc[p] = "dump"
    /\ fs[job[p].target].n = Chunks
    /\ job' = [job EXCEPT ![p].outcome = "returned"]
    /\ pc' = [pc EXCEPT ![p] = "idle"]
    /\ UNCHANGED <<fs, tmpdir, calls>>

IdleRest ==
    /\ er_under5 = <<>> /\ er_5to17 = <<>> /\ pop_data = <<>>
    /\ providers = <<>> /\ merged = <<>>
    /\ series = <<>> /\ reverse = FALSE /\ terciles = <<>>
    /\ gdf = <<>> /\ classified = <<>> /\ qa = <<>>

Init == InitIO /\ IdleRest /\ IdleLater

\* The pipeline is a single-threaded batch (one script, one write at a
\* time): a write starts only when no other write is in progress.
Next ==
    \/ \E p \in Procs, a \in AtomicArtifacts :
          AllIdle /\ AtomicWriteCall(p, a) /\ UNCHANGED <<mergeVars, tercileVars, classVars, laterVars>>
    \/ \E p \in Procs, a \in DirectArtifacts :
          AllIdle /\ OpenForWrite(p, a) /\ UNCHANGED <<mergeVars, tercileVars, classVars, laterVars>>
    \/ \E p \in Procs :
          /\ \/ Mkstemp(p)
             \/ MkstempFails(p)
             \/ WriteFuncStep(p)
             \/ WriteFuncReturns(p)
             \/ \E exc \in {"Exception", "BaseException"} : WriteFuncRaises(p, exc)
             \/ Replace(p)
             \/ ReplaceFails(p)
             \/ ExceptCleanup(p)
             \/ DumpStep(p)
             \/ DumpRaises(p)
             \/ CloseFile(p)
          /\ UNCHANGED <<mergeVars, tercileVars, classVars, laterVars>>

Spec == Init /\ [][Next]_vars

\* The write that is in progress or was done last (writes are sequential).
Latest(p) == job[p].id = calls /\ job[p].id # 0

\* C1: through any sequence of atomic_write calls on a target path, each of
\* which may fail at temp creation, inside write_func or at the replace, the
\* file at the target path is always either the complete version that was
\* there when the call began (or absent, if there was none) or the complete
\* new version; it is never a partial file.
C1_TargetPreviousOrNew ==
    /\ \A a \in AtomicArtifacts : fs[a] = Absent \/ IsWhole(fs[a])
    /\ \A p \in Procs :
          (Latest(p) /\ job[p].via = "atomic_write") =>
              /\ fs[job[p].target] \in {job[p].before, WholeFile(job[p].id)}
              /\ job[p].before = Absent \/ IsWhole(job[p].before)

\* A second atomic_write on a path that an earlier call of this run wrote
\* failed after writing part of its temp file.
C1_Witness ==
    \E p \in Procs :
        /\ Latest(p) /\ job[p].via = "atomic_write"
        /\ job[p].before.ver \in CallIds
        /\ job[p].outcome = "raised"
        /\ job[p].temp
        /\ fs[job[p].target] = job[p].before

\* C2: whenever an atomic_write call fails after its temp file was created
\* (write_func raising any kind of error or interruption, or the replace
\* failing), the temp file is removed, the target is unchanged and the
\* failure reaches the caller.
C2_FailureRemovesTemp ==
    \A p \in Procs :
        (/\ Latest(p) /\ job[p].via = "atomic_write"
         /\ pc[p] = "idle" /\ job[p].failed /\ job[p].temp) =>
            /\ ~TmpExists(job[p].id)
            /\ fs[job[p].target] = job[p].before
            /\ job[p].outcome = "raised"

\* C3: every output artifact of the pipeline scripts reaches its canonical
\* path only through a temp file and an atomic replace: no script has a
\* canonical output path open for writing, and no canonical path ever holds
\* a partial file.
C3_OutputsOnlyByReplace ==
    /\ \A p \in Procs : job[p].via # "open"
    /\ \A a \in Artifacts : fs[a] = Absent \/ IsWhole(fs[a])

(***************************************************************************)
(* PART 2.  The dataset merger, scripts/04_merge_datasets.py.              *)
(* Tables are sequences of rows (records).  ER rates are in tenths,        *)
(* providers_per_10k in hundredths, percentages in tenths of a percent;    *)
(* a missing cell is NaN, a float infinity is Inf.                         *)
(***************************************************************************)
NumUHF == 2        \* neighborhoods of the base geography (42 in the data)
MaxProviders == 1  \* rows of providers_geocoded.csv

UHFCodes == 1..NumUHF
NoRow == 0 - 3     \* "the table has no row for this code" when drawing inputs

RECURSIVE SumSeq(_)
SumSeq(q) == IF q = <<>> THEN 0 ELSE Head(q) + SumSeq(Tail(q))

\* numpy rounding of num/den to an integer: half goes to the even neighbour.
RoundHalfEven(num, den) ==
    LET q == num \div den
        r == num % den
    IN  IF 2 * r < den THEN q
        ELSE IF 2 * r > den THEN q + 1
        ELSE IF q % 2 = 0 THEN q ELSE q + 1

\* Float division a / b, times scale, rounded: NaN propagates, x/0 is
\* infinity for x > 0 and NaN for x = 0, and nothing raises.
Quot(a, b, scale) ==
    IF a = NaN \/ b = NaN THEN NaN
    ELSE IF a = Inf /\ b = Inf THEN NaN
    ELSE IF a = Inf THEN Inf
    ELSE IF b = Inf THEN 0
    ELSE IF b = 0 THEN (IF a = 0 THEN NaN ELSE Inf)
    ELSE RoundHalfEven(a * scale, b)

FillNa0(x) == IF x = NaN THEN 0 ELSE x

\* The base geography file: one polygon per neighborhood code and the
\* citywide polygon, code 0.
BaseGeography == [i \in 1..(NumUHF + 1) |-> [GEOCODE |-> i - 1]]

\* 04_merge_datasets.py:128-130: drop the citywide polygon, rename the key.
LoadBase ==
    LET kept == SelectSeq(BaseGeography, LAMBDA g : g.GEOCODE # 0)
    IN  [i \in 1..Len(kept) |-> [uhf_code |-> kept[i].GEOCODE]]

HasKey(table, k) == \E i \in 1..Len(table) : table[i].uhf_code = k

RECURSIVE InnerMerge(_, _, _)
InnerMerge(left, right, nulls) ==
    IF left = <<>> THEN <<>>
    ELSE LET l == Head(left)
             m == SelectSeq(right, LAMBDA r : r.uhf_code = l.uhf_code)
         IN  [j \in 1..Len(m) |-> l @@ m[j]] \o InnerMerge(Tail(left), right, nulls)

\* DataFrame.merge(right, on="uhf_code", how="left"): every left row, once
\* per matching right row, or once with the right columns null.
RECURSIVE LeftMerge(_, _, _)
LeftMerge(left, right, nulls) ==
    IF left = <<>> THEN <<>>
    ELSE LET l == Head(left)
             m == SelectSeq(right, LAMBDA r : r.uhf_code = l.uhf_code)
             rows == IF m = <<>> THEN <<l @@ nulls>>
                     ELSE [j \in 1..Len(m) |-> l @@ m[j]]
         IN  rows \o LeftMerge(Tail(left), right, nulls)

\* 04_merge_datasets.py:82-86: the two age groups, outer-merged on uhf_code.
LoadErData(under5, r5to17) ==
    LET matched == LeftMerge(under5, r5to17, [er_rate_5to17 |-> NaN])
        rightOnly == SelectSeq(r5to17, LAMBDA r : ~HasKey(under5, r.uhf_code))
    IN  matched \o [j \in 1..Len(rightOnly) |->
                       rightOnly[j] @@ [er_rate_under5 |-> NaN]]

\* case=False: the pattern is matched whatever the case of the text.  A
\* specialty text is the set of the word stems it contains, as spelled.
Fold(w) ==
    CASE w \in {"Pediatric", "PEDIATRIC"} -> "pediatric"
      [] w \in {"Pulmon", "PULMON"} -> "pulmon"
      [] w \in {"Allergy", "ALLERGY"} -> "allergy"
      [] w \in {"Immunology", "IMMUNOLOGY"} -> "immunology"
      [] OTHER -> w

\* Series.str.contains(word, case=False, na=False) on taxonomy_desc.
Contains(desc, words) ==
    ~desc.na /\ {Fold(w) : w \in desc.words} \cap words # {}

IsPediatricsAny(desc) == Contains(desc, {"pediatric"})

\* 04_merge_datasets.py:107-108: "Pediatric" and not "Pulmon".
IsPediatrics(desc) ==
    Contains(desc, {"pediatric"}) /\ ~Contains(desc, {"pulmon"})

\* 04_merge_datasets.py:89-117: one row per neighborhood code that has a
\* provider, with the total and the three specialty counts.
AggregateProviders(prov) ==
    LET valid == SelectSeq(prov, LAMBDA r : r.uhf_code # NaN)
        codes == {valid[i].uhf_code : i \in 1..Len(valid)}
        keys == SelectSeq([c \in 1..(NumUHF + 1) |-> c], LAMBDA c : c \in codes)
        In(c) == SelectSeq(valid, LAMBDA r : r.uhf_code = c)
    IN  [i \in 1..Len(keys) |->
           [uhf_code |-> keys[i],
            total_providers |-> Len(In(keys[i])),
            pulmonology_count |->
                Len(SelectSeq(In(keys[i]),
                    LAMBDA r : Contains(r.taxonomy_desc, {"pulmon"}))),
            allergy_count |->
                Len(SelectSeq(In(keys[i]),
                    LAMBDA r : Contains(r.taxonomy_desc, {"allergy", "immunology"}))),
            pediatrics_count |->
                Len(SelectSeq(In(keys[i]),
                    LAMBDA r : IsPediatrics(r.taxonomy_desc)))]]

NullEr == [er_rate_under5 |-> NaN, er_rate_5to17 |-> NaN]
NullPop == [child_population |-> NaN]
NullCounts == [total_providers |-> NaN, pulmonology_count |-> NaN,
               allergy_count |-> NaN, pediatrics_count |-> NaN]

\* 04_merge_datasets.py:157-164: the three left joins on uhf_code.
JoinAll(base, er, pop, counts) ==
    LeftMerge(LeftMerge(LeftMerge(base, er, NullEr), pop, NullPop),
              counts, NullCounts)

FillCountsNone(rows) == rows

\* 04_merge_datasets.py:166-168: missing provider counts become integer 0.
FillCounts(rows) ==
    [i \in 1..Len(rows) |->
        [rows[i] EXCEPT !.total_providers = FillNa0(@),
                        !.pulmonology_count = FillNa0(@),
                        !.allergy_count = FillNa0(@),
                        !.pediatrics_count = FillNa0(@)]]

\* 04_merge_datasets.py:177-178, in hundredths.
ProvidersPer10k(total, pop) == Quot(total, pop, 1000000)

ErRateCombinedPropagate(u5, r17) ==
    IF u5 = NaN \/ r17 = NaN THEN NaN ELSE RoundHalfEven(u5 + r17, 2)

\* 04_merge_datasets.py:185, in tenths.
ErRateCombined(u5, r17) == RoundHalfEven(FillNa0(u5) + FillNa0(r17), 2)

\* The column col of a table.
Column(rows, col) == [i \in 1..Len(rows) |-> rows[i][col]]
NonNull(q) == SelectSeq(q, LAMBDA x : x # NaN)

\* 04_merge_datasets.py:191: rate / mean(rate) * 100, in tenths of a percent;
\* the mean skips the missing rates and is NaN when there is none.
ErPctOfAvg(rate, rates) ==
    LET known == NonNull(rates)
    IN  IF rate = NaN \/ known = <<>> THEN NaN
        ELSE Quot(rate * Len(known), SumSeq(known), 1000)

\* 04_merge_datasets.py:189,192: providers_per_10k divided by
\* sum(total_providers) / sum(child_population) * 10000, times 100, in
\* tenths of a percent.
ProviderPctOfAvg(p100, totals, pops) ==
    LET T == SumSeq(totals)
        P == SumSeq(NonNull(pops))
    IN  IF p100 = NaN THEN NaN
        ELSE IF T = 0 /\ P = 0 THEN NaN
        ELSE IF P = 0 THEN (IF p100 = Inf THEN NaN ELSE 0)
        ELSE IF p100 = Inf THEN Inf
        ELSE IF T = 0 THEN (IF p100 = 0 THEN NaN ELSE Inf)
        ELSE RoundHalfEven(p100 * P * 10, T * 10000)

\* 04_merge_datasets.py:120-227: main(), up to the rows that are written.
MergeDatasets(under5, r5to17, pop, prov) ==
    LET rows == FillCounts(JoinAll(LoadBase, LoadErData(under5, r5to17), pop,
                                   AggregateProviders(prov)))
        rates == Column(rows, "er_rate_5to17")
        totals == Column(rows, "total_providers")
        pops == Column(rows, "child_population")
    IN  [i \in 1..Len(rows) |->
           LET r == rows[i]
               p100 == ProvidersPer10k(r.total_providers, r.child_population)
           IN  [uhf_code |-> r.uhf_code,
                child_population |-> r.child_population,
                er_rate_under5 |-> r.er_rate_under5,
                er_rate_5to17 |-> r.er_rate_5to17,
                er_rate_combined |-> ErRateCombined(r.er_rate_under5, r.er_rate_5to17),
                er_pct_of_avg |-> ErPctOfAvg(r.er_rate_5to17, rates),
                total_providers |-> r.total_providers,
                pulmonology_count |-> r.pulmonology_count,
                allergy_count |-> r.allergy_count,
                pediatrics_count |-> r.pediatrics_count,
                providers_per_10k |-> p100,
                provider_pct_of_avg |-> ProviderPctOfAvg(p100, totals, pops)]]

\* A table is drawn as a function f from codes to a cell or NoRow; these are
\* the codes that have a row, in file order.
PresentCodes(f) == SelectSeq([c \in 1..NumUHF |-> c], LAMBDA c : f[c] # NoRow)

\* Sample cells: a rate or population that differs from code to code.
SampleUnder5(c) == 200 * c + 5
Sample5to17(c) == 100 * c
SamplePop(c) == 10000 * c

ErUnder5Tables ==
    {LET keys == PresentCodes(f)
     IN  [i \in 1..Len(keys) |->
            [uhf_code |-> keys[i],
             er_rate_under5 |->
                IF f[keys[i]] = 1 THEN SampleUnder5(keys[i]) ELSE f[keys[i]]]] :
        f \in [UHFCodes -> {NoRow, NaN, 1}]}
Er5to17Tables ==
    {LET keys == PresentCodes(f)
     IN  [i \in 1..Len(keys) |->
            [uhf_code |-> keys[i],
             er_rate_5to17 |->
                IF f[keys[i]] = 1 THEN Sample5to17(keys[i]) ELSE f[keys[i]]]] :
        f \in [UHFCodes -> {NoRow, NaN, 1}]}
PopTables ==
    {LET keys == PresentCodes(f)
     IN  [i \in 1..Len(keys) |->
            [uhf_code |-> keys[i],
             child_population |->
                IF f[keys[i]] = 1 THEN SamplePop(keys[i]) ELSE f[keys[i]]]] :
        f \in [UHFCodes -> {NoRow, 0, 1}]}

PediatricsDesc == [na |-> FALSE, words |-> {"pediatric"}]
ProviderRows(descs) ==
    UNION {[1..n -> [uhf_code : UHFCodes \cup {NaN}, taxonomy_desc : descs]] :
              n \in 0..MaxProviders}

\* Specialty texts as the registry spells them: "Pediatric Pulmonology",
\* "PULMONARY DISEASE", "Allergy & Immunology", "PEDIATRICS", "Cardiology",
\* the empty text and a missing cell.
Specialties ==
    {[na |-> FALSE, words |-> {"Pediatric", "Pulmon"}],
     [na |-> FALSE, words |-> {"PULMON"}],
     [na |-> FALSE, words |-> {"Allergy", "Immunology"}],
     [na |-> FALSE, words |-> {"PEDIATRIC"}],
     [na |-> FALSE, words |-> {"Cardiology"}],
     [na |-> FALSE, words |-> {}],
     [na |-> TRUE, words |-> {}]}

IdleIO ==
    /\ fs = [a \in Artifacts |-> Absent]
    /\ tmpdir = {}
    /\ pc = [p \in Procs |-> "idle"]
    /\ job = [p \in Procs |-> NoJob]
    /\ calls = 0

InitMerge ==
    /\ merged = <<>>
    /\ IdleIO
    /\ IdleLater
    /\ series = <<>> /\ reverse = FALSE /\ terciles = <<>>
    /\ gdf = <<>> /\ classified = <<>> /\ qa = <<>>
    /\ er_under5 \in ErUnder5Tables
    /\ er_5to17 \in Er5to17Tables
    /\ pop_data \in PopTables
    /\ providers \in ProviderRows({PediatricsDesc})

\* One run of script 04 over the loaded input tables.
RunMerge ==
    /\ merged = <<>>
    /\ merged' = MergeDatasets(er_under5, er_5to17, pop_data, providers)
    /\ UNCHANGED <<er_under5, er_5to17, pop_data, providers>>
    /\ UNCHANGED <<ioVars, tercileVars, classVars, laterVars>>

\* 04_merge_datasets.py:188: the mean of the primary ER rate over the
\* neighborhoods that have one, in tenths; NaN when there is none.
CitywideErRate(rates) ==
    LET known == NonNull(rates)
    IN  IF known = <<>> THEN NaN ELSE RoundHalfEven(SumSeq(known), Len(known))

\* 04_merge_datasets.py:189: sum(total_providers) / sum(child_population)
\* * 10000, in hundredths; the sums skip missing cells.
CitywideProviderRate(totals, pops) ==
    Quot(SumSeq(totals), SumSeq(NonNull(pops)), 1000000)

\* Series.mean(): the mean of the cells that are not missing, rounded; NaN
\* when there is none, infinite when a cell is.
Mean(col) ==
    LET known == NonNull(col)
    IN  IF known = <<>> THEN NaN
        ELSE IF \E i \in 1..Len(known) : known[i] = Inf THEN Inf
        ELSE RoundHalfEven(SumSeq(known), Len(known))

\* 06_export_for_web.py:190-196: the head of the stats dictionary.  The
\* columns it reads pass through script 05 as script 04 wrote them.
ExportStats(rows) ==
    [total_neighborhoods |-> Len(rows),
     total_children |-> SumSeq(NonNull(Column(rows, "child_population"))),
     total_providers |-> SumSeq(Column(rows, "total_providers")),
     citywide_er_rate |-> Mean(Column(rows, "er_rate_5to17")),
     citywide_provider_rate |-> Mean(Column(rows, "providers_per_10k"))]

\* Script 06 computes the statistics it writes to stats.json.
RunExportStats ==
    /\ merged # <<>>
    /\ stats = <<>>
    /\ stats' = ExportStats(merged)
    /\ UNCHANGED <<ioVars, mergeVars, tercileVars, classVars, aggregateVars,
                   populationVars, geocodeVars, validationVars,
                   utilVars>>

NextMerge == RunMerge

MergeSpec == InitMerge /\ [][NextMerge]_vars

\* Script 06 starts from the dataset script 04 produced from its inputs.
InitExport ==
    /\ IdleIO
    /\ IdleLater
    /\ series = <<>> /\ reverse = FALSE /\ terciles = <<>>
    /\ gdf = <<>> /\ classified = <<>> /\ qa = <<>>
    /\ er_under5 \in ErUnder5Tables
    /\ er_5to17 \in Er5to17Tables
    /\ pop_data \in PopTables
    /\ providers \in ProviderRows({PediatricsDesc})
    /\ merged = MergeDatasets(er_under5, er_5to17, pop_data, providers)

NextExport == RunExportStats

ExportSpec == InitExport /\ [][NextExport]_vars

RowsOf(rows, c) == SelectSeq(rows, LAMBDA r : r.uhf_code = c)

\* C4: after the three left joins on the neighborhood code the merged
\* output holds exactly one row for every code of the base geography, no
\* duplicates, no omissions and no other code, however sparse the ER,
\* population and provider tables are.
C4_OneRowPerNeighborhood ==
    merged # <<>> =>
        /\ Len(merged) = Len(LoadBase)
        /\ \A i \in 1..Len(LoadBase) : Len(RowsOf(merged, LoadBase[i].uhf_code)) = 1
        /\ \A j \in 1..Len(merged) : merged[j].uhf_code \in UHFCodes

\* The merge ran with a neighborhood that none of the joined tables has a
\* row for, and another that the ER and population tables do have.
C4_Witness ==
    /\ merged # <<>>
    /\ \E c \in UHFCodes :
          /\ ~HasKey(er_under5, c) /\ ~HasKey(er_5to17, c)
          /\ ~HasKey(pop_data, c) /\ ~HasKey(providers, c)
    /\ \E c \in UHFCodes : HasKey(er_5to17, c) /\ HasKey(pop_data, c)

\* C5: for every neighborhood whose child_population is zero or null,
\* whatever its total_providers, providers_per_10k is null: never zero,
\* never infinity.
C5_NullRateForNoPopulation ==
    \A j \in 1..Len(merged) :
        merged[j].child_population \in {0, NaN} => merged[j].providers_per_10k = NaN

\* C14: after the merge a neighborhood with no row in the provider summary
\* has total_providers and the three specialty counts equal to 0, never
\* null, and a neighborhood with no ER-rate row keeps null ER rates, never 0.
C14_CountsZeroRatesNull ==
    \A j \in 1..Len(merged) :
        LET r == merged[j]
        IN  /\ ~HasKey(AggregateProviders(providers), r.uhf_code) =>
                  /\ r.total_providers = 0 /\ r.pulmonology_count = 0
                  /\ r.allergy_count = 0 /\ r.pediatrics_count = 0
            /\ (~HasKey(er_under5, r.uhf_code) /\ ~HasKey(er_5to17, r.uhf_code)) =>
                  r.er_rate_under5 = NaN /\ r.er_rate_5to17 = NaN
            /\ ~HasKey(er_5to17, r.uhf_code) => r.er_rate_5to17 = NaN

\* The merge ran with a neighborhood that has neither a provider nor an ER
\* row, and another neighborhood that has a provider.
C14_Witness ==
    /\ \E j \in 1..Len(merged) :
          /\ ~HasKey(AggregateProviders(providers), merged[j].uhf_code)
          /\ ~HasKey(er_under5, merged[j].uhf_code)
          /\ ~HasKey(er_5to17, merged[j].uhf_code)
    /\ \E j \in 1..Len(merged) : merged[j].total_providers > 0

\* C15: er_rate_combined is the average of the two age-band rates with a
\* missing rate taken as zero, so it is never null: half the other rate
\* when one is missing, 0 when both are; providers_per_10k of the same run
\* is null when the population is null.
C15_CombinedTreatsMissingAsZero ==
    \A j \in 1..Len(merged) :
        LET r == merged[j]
            u5 == r.er_rate_under5
            r17 == r.er_rate_5to17
        IN  /\ r.er_rate_combined # NaN
            /\ (u5 = NaN /\ r17 = NaN) => r.er_rate_combined = 0
            /\ (u5 = NaN /\ r17 # NaN) => r.er_rate_combined = RoundHalfEven(r17, 2)
            /\ (u5 # NaN /\ r17 = NaN) => r.er_rate_combined = RoundHalfEven(u5, 2)
            /\ (u5 # NaN /\ r17 # NaN) =>
                  r.er_rate_combined = RoundHalfEven(u5 + r17, 2)
            /\ r.child_population = NaN => r.providers_per_10k = NaN

\* The merge ran with a neighborhood that has one age-band rate only, a
\* provider and no population, and one that has neither rate.
C15_Witness ==
    /\ \E j \in 1..Len(merged) :
          /\ merged[j].er_rate_under5 = NaN /\ merged[j].er_rate_5to17 # NaN
          /\ merged[j].er_rate_combined > 0
          /\ merged[j].total_providers > 0
          /\ merged[j].child_population = NaN
          /\ merged[j].providers_per_10k = NaN
    /\ \E j \in 1..Len(merged) :
          /\ merged[j].er_rate_under5 = NaN /\ merged[j].er_rate_5to17 = NaN
          /\ merged[j].er_rate_combined = 0

\* C16: the citywide ER reference is the mean of the primary ER rate over
\* the neighborhoods with a non-null rate, and the citywide provider rate
\* that is reported is total providers / total child population * 10000,
\* not the mean of the per-neighborhood provider rates.  Stated for the
\* runs in which every neighborhood has a positive child population.
C16_CitywideRateIsWeighted ==
    (/\ stats # <<>>
     /\ \A j \in 1..Len(merged) : merged[j].child_population > 0) =>
        /\ stats.citywide_er_rate = CitywideErRate(Column(merged, "er_rate_5to17"))
        /\ stats.citywide_provider_rate =
              CitywideProviderRate(Column(merged, "total_providers"),
                                   Column(merged, "child_population"))

(***************************************************************************)
(* aggregate_providers on its own, scripts/04_merge_datasets.py:89-117,    *)
(* over provider lists with every kind of specialty text.                  *)
(***************************************************************************)
MaxListed == 2   \* rows of providers_geocoded.csv given to aggregate_providers

InitAggregate ==
    /\ IdleIO
    /\ er_under5 = <<>> /\ er_5to17 = <<>> /\ pop_data = <<>> /\ merged = <<>>
    /\ series = <<>> /\ reverse = FALSE /\ terciles = <<>>
    /\ gdf = <<>> /\ classified = <<>> /\ qa = <<>>
    /\ IdleExport /\ IdlePopulation /\ IdleGeocode /\ IdleValidation /\ IdleUtil
    /\ provider_counts = <<>>
    /\ providers \in
          UNION {[1..n -> [uhf_code : UHFCodes \cup {NaN},
                           taxonomy_desc : Specialties]] : n \in 0..MaxListed}

\* One call of aggregate_providers(providers_df).
RunAggregate ==
    /\ provider_counts = <<>>
    /\ provider_counts' = AggregateProviders(providers)
    /\ UNCHANGED <<ioVars, mergeVars, tercileVars, classVars, exportVars,
                   populationVars, geocodeVars, validationVars,
                   utilVars>>

NextAggregate == RunAggregate

AggregateSpec == InitAggregate /\ [][NextAggregate]_vars

\* The providers of a neighborhood whose specialty text mentions one of the
\* spellings.
Mentions(desc, spellings) == ~desc.na /\ desc.words \cap spellings # {}
ProvidersIn(c) == {i \in 1..Len(providers) : providers[i].uhf_code = c}
Pulmon == {"Pulmon", "PULMON"}
AllergyImmunology == {"Allergy", "ALLERGY", "Immunology", "IMMUNOLOGY"}
Pediatric == {"Pediatric", "PEDIATRIC"}

\* C17: aggregate_providers counts a provider with a neighborhood toward
\* pulmonology iff its specialty text contains "Pulmon" in any case,
\* toward allergy iff it contains "Allergy" or "Immunology", toward
\* pediatrics iff it contains "Pediatric" and not "Pulmon"; no provider is
\* counted in both pulmonology and pediatrics, a blank specialty counts
\* toward no category, and every count is at most total_providers.
C17_SpecialtyCounts ==
    \A k \in 1..Len(provider_counts) :
        LET r == provider_counts[k]
            mine == ProvidersIn(r.uhf_code)
            desc(i) == providers[i].taxonomy_desc
            pulm == {i \in mine : Mentions(desc(i), Pulmon)}
            allergy == {i \in mine : Mentions(desc(i), AllergyImmunology)}
            peds == {i \in mine : Mentions(desc(i), Pediatric)} \ pulm
            blank == {i \in mine : desc(i).na \/ desc(i).words = {}}
        IN  /\ r.total_providers = Cardinality(mine)
            /\ r.pulmonology_count = Cardinality(pulm)
            /\ r.allergy_count = Cardinality(allergy)
            /\ r.pediatrics_count = Cardinality(peds)
            /\ r.pulmonology_count + r.pediatrics_count <= r.total_providers
            /\ r.allergy_count <= r.total_providers
            /\ blank \cap (pulm \cup allergy \cup peds) = {}

\* aggregate_providers ran on a neighborhood with a pediatric pulmonologist
\* and a provider whose specialty is blank.
C17_Witness ==
    \E k \in 1..Len(provider_counts) :
        /\ provider_counts[k].total_providers = 2
        /\ provider_counts[k].pulmonology_count = 1
        /\ provider_counts[k].pediatrics_count = 0
        /\ \E i \in ProvidersIn(provider_counts[k].uhf_code) :
              providers[i].taxonomy_desc.words = {"Pediatric", "Pulmon"}
        /\ \E i \in ProvidersIn(provider_counts[k].uhf_code) :
              providers[i].taxonomy_desc.na

(***************************************************************************)
(* PART 3.  calculate_terciles, scripts/05_calculate_classes.py:36-50.     *)
(* pandas.qcut(series, q=3, labels=False, duplicates="drop") is computed   *)
(* as pandas computes it, in exact arithmetic: the four bin edges are the  *)
(* 0, 1/3, 2/3 and 1 quantiles (linear interpolation) of the non-null      *)
(* values, duplicate edges are dropped, and a value falls into the bin     *)
(* (edge[k], edge[k+1]], the lowest edge included.  Edges are kept times 3 *)
(* so that they stay integers.                                             *)
(***************************************************************************)
SeriesLen == 5   \* rows of the series given to calculate_terciles
MaxRate == 4     \* metric values are 0..MaxRate

Sorted(q) == SortSeq(q, LAMBDA a, b : a < b)

QuantileEdge3Lower(sorted, k) ==
    3 * sorted[(((Len(sorted) - 1) * k) \div 3) + 1]

\* Three times the k/3 quantile of the sorted values.
QuantileEdge3(sorted, k) ==
    LET pos == (Len(sorted) - 1) * k
        i == (pos \div 3) + 1
        r == pos % 3
    IN  IF r = 0 THEN 3 * sorted[i]
        ELSE 3 * sorted[i] + r * (sorted[i + 1] - sorted[i])

Edges3(sorted) ==
    <<QuantileEdge3(sorted, 0), QuantileEdge3(sorted, 1),
      QuantileEdge3(sorted, 2), QuantileEdge3(sorted, 3)>>

\* The distinct values of a non-decreasing sequence, in order.
Unique(q) ==
    LET first == SelectSeq([i \in 1..Len(q) |-> i],
                           LAMBDA i : i = 1 \/ q[i] # q[i - 1])
    IN  [j \in 1..Len(first) |-> q[first[j]]]

\* duplicates="drop": repeated edges collapse into one.
DropDuplicates(bins) ==
    LET unique == Unique(bins)
    IN  IF Len(unique) < Len(bins) /\ Len(bins) # 2 THEN unique ELSE bins

Bins3(q) ==
    LET sorted == Sorted(NonNull(q))
        edges == Edges3(sorted)
    IN  DropDuplicates(edges)

\* bins.searchsorted(x, side="left"), then include_lowest.
BinId(bins, x) ==
    IF 3 * x = bins[1] THEN 1
    ELSE Cardinality({k \in 1..Len(bins) : bins[k] < 3 * x})

\* The bin index qcut returns for each row, NaN for a null value and for a
\* value that falls into no bin.
Qcut(q) ==
    LET bins == Bins3(q)
    IN  [i \in 1..Len(q) |->
            IF q[i] = NaN THEN NaN
            ELSE LET id == BinId(bins, q[i])
                 IN  IF id = Len(bins) \/ id = 0 THEN NaN ELSE id - 1]

CalculateTercilesNoInvert(q, rev) ==
    LET qc == Qcut(q)
    IN  [i \in 1..Len(q) |-> IF qc[i] = NaN THEN NaN ELSE qc[i] + 1]

\* 05_calculate_classes.py:44-50.
CalculateTerciles(q, rev) ==
    LET qc == Qcut(q)
        t == [i \in 1..Len(q) |-> IF qc[i] = NaN THEN NaN ELSE qc[i] + 1]
    IN  IF rev THEN [i \in 1..Len(q) |-> IF t[i] = NaN THEN NaN ELSE 4 - t[i]]
        ELSE t

\* A series has at least one value: the quantiles of no data are not
\* defined.
SeriesOver(n, top) ==
    {q \in [1..n -> {NaN} \cup 0..top] : \E i \in 1..n : q[i] # NaN}

InitTercile ==
    /\ terciles = <<>>
    /\ IdleIO
    /\ IdleLater
    /\ er_under5 = <<>> /\ er_5to17 = <<>> /\ pop_data = <<>>
    /\ providers = <<>> /\ merged = <<>>
    /\ gdf = <<>> /\ classified = <<>> /\ qa = <<>>
    /\ reverse \in BOOLEAN
    /\ series \in SeriesOver(SeriesLen, MaxRate)

\* One call of calculate_terciles(series, reverse).
RunTerciles ==
    /\ terciles = <<>>
    /\ terciles' = CalculateTerciles(series, reverse)
    /\ UNCHANGED <<series, reverse, ioVars, mergeVars, classVars, laterVars>>

NextTercile == RunTerciles

TercileSpec == InitTercile /\ [][NextTercile]_vars

Values(q) == {q[i] : i \in 1..Len(q)} \ {NaN}
GroupSize(t, g) == Cardinality({i \in 1..Len(t) : t[i] = g})
Floor3(n) == n \div 3
Ceil3(n) == (n + 2) \div 3
CutPointsDistinct(q) == Len(Unique(Edges3(Sorted(NonNull(q))))) = 4
PairwiseDistinct(q) == Cardinality(Values(q)) = Len(NonNull(q))

\* C8 as claimed: for a metric with at least 3 distinct non-null values
\* over n neighborhoods, and no duplicate cut points, each of the three
\* tercile groups holds between floor(n/3) and ceil(n/3) neighborhoods.
C8_EqualThirdsAsClaimed ==
    (/\ terciles # <<>>
     /\ Cardinality(Values(series)) >= 3
     /\ CutPointsDistinct(series)) =>
        \A g \in 1..3 :
            /\ GroupSize(terciles, g) >= Floor3(Len(series))
            /\ GroupSize(terciles, g) <= Ceil3(Len(series))

\* C8 amended: for a metric whose non-null values are pairwise distinct and
\* at least 3 in number, each of the three tercile groups holds between
\* floor(m/3) and ceil(m/3) neighborhoods, m the number of non-null values.
C8_EqualThirdsWhenDistinct ==
    (/\ terciles # <<>>
     /\ PairwiseDistinct(series)
     /\ Len(NonNull(series)) >= 3) =>
        \A g \in 1..3 :
            /\ GroupSize(terciles, g) >= Floor3(Len(NonNull(series)))
            /\ GroupSize(terciles, g) <= Ceil3(Len(NonNull(series)))

\* calculate_terciles ran on four pairwise distinct values and a null,
\* with the direction reversed.
C8_Witness ==
    /\ terciles # <<>>
    /\ reverse
    /\ PairwiseDistinct(series)
    /\ Len(NonNull(series)) = 4
    /\ Len(series) > 4

\* C9: for any two rows with non-null values, the row with the strictly
\* greater value never gets a worse tercile: with reverse (provider rate)
\* its tercile is <= the other's, without reverse (ER rate) it is >= the
\* other's; ties and collapsed groups included.
C9_TercilesMonotone ==
    terciles # <<>> =>
        \A i, j \in 1..Len(series) :
            (series[i] # NaN /\ series[j] # NaN /\ series[i] > series[j]) =>
                /\ terciles[i] # NaN /\ terciles[j] # NaN
                /\ reverse => terciles[i] <= terciles[j]
                /\ ~reverse => terciles[i] >= terciles[j]

\* calculate_terciles ran reversed on a series with ties whose duplicate
\* cut points collapsed the binning, and put two rows in different groups.
C9_Witness ==
    /\ terciles # <<>>
    /\ reverse
    /\ ~CutPointsDistinct(series)
    /\ ~PairwiseDistinct(series)
    /\ \E i, j \in 1..Len(series) :
          /\ series[i] # NaN /\ series[j] # NaN /\ series[i] > series[j]
          /\ terciles[i] < terciles[j]

Max(S) == CHOOSE x \in S : \A y \in S : y <= x
Min(S) == CHOOSE x \in S : \A y \in S : x <= y

\* C10: for every input with at least two distinct non-null values,
\* collapsed binnings included, the row with the highest provider rate gets
\* access tercile 1 and the one with the lowest gets 3, and the row with
\* the lowest ER rate gets ER tercile 1 and the one with the highest gets 3.
C10_ExtremesGetEndLabels ==
    (terciles # <<>> /\ Cardinality(Values(series)) >= 2) =>
        \A i \in 1..Len(series) :
            /\ series[i] = Max(Values(series)) => terciles[i] = (IF reverse THEN 1 ELSE 3)
            /\ series[i] = Min(Values(series)) => terciles[i] = (IF reverse THEN 3 ELSE 1)

\* C11: when a metric has fewer distinct non-null values than three groups
\* need, down to all values identical, calculate_terciles returns (it does
\* not raise) and every non-null value belongs to one of the groups 1..3.
C11_EveryValueGrouped ==
    terciles # <<>> =>
        /\ Len(terciles) = Len(series)
        /\ \A i \in 1..Len(series) : series[i] # NaN => terciles[i] \in 1..3

(***************************************************************************)
(* PART 4.  The bivariate classifier, scripts/05_calculate_classes.py      *)
(* main().  String cells use NA for a missing value.                       *)
(***************************************************************************)
NumClassified == 3  \* rows of the analysis dataset given to script 05
MaxMetric == 2      \* the two metrics take the values 0..MaxMetric

NA == "<NA>"

\* A column that holds a NaN is a float column, otherwise qcut's integers.
IsFloat(col) == \E i \in 1..Len(col) : col[i] = NaN

\* Series.astype(str): "3" for an integer, "3.0" for a float, "nan" for NaN.
AsStr(col) ==
    LET float == IsFloat(col)
    IN  [i \in 1..Len(col) |->
            IF col[i] = NaN THEN "nan"
            ELSE IF float THEN ToString(col[i]) \o ".0"
            ELSE ToString(col[i])]

\* configs/params.yml, colors: one fill color for each of the nine codes.
colors ==
    [k \in {"1-1", "1-2", "1-3", "2-1", "2-2", "2-3", "3-1", "3-2", "3-3"} |->
        "color " \o k]

\* Series.map(colors): the color of a key of the table, missing otherwise.
MapColors(class) == IF class \in DOMAIN colors THEN colors[class] ELSE NA

IsFailureZoneEither(er, acc) == er = 3 \/ acc = 3

\* 05_calculate_classes.py:105.
IsFailureZone(er, acc) == er = 3 /\ acc = 3

IsAtRiskAnyTwo(er, acc) == (er = 3 /\ acc >= 2) \/ (er >= 2 /\ acc = 3)

\* 05_calculate_classes.py:114-115.
IsAtRisk(er, acc) == (er = 3 /\ acc = 2) \/ (er = 2 /\ acc = 3)

\* 05_calculate_classes.py:81-115: the columns main() adds to the rows once
\* it has the two tercile columns er and acc.
Classify(rows, er, acc) ==
    LET erStr == AsStr(er)
        accStr == AsStr(acc)
        class == [i \in 1..Len(rows) |-> erStr[i] \o "-" \o accStr[i]]
    IN  [i \in 1..Len(rows) |->
           [uhf_code |-> rows[i].uhf_code,
            er_rate_5to17 |-> rows[i].er_rate_5to17,
            providers_per_10k |-> rows[i].providers_per_10k,
            er_tercile |-> er[i],
            access_tercile |-> acc[i],
            bivariate_class |-> class[i],
            fill_color |-> MapColors(class[i]),
            is_failure_zone |-> IsFailureZone(er[i], acc[i]),
            is_at_risk |-> IsAtRisk(er[i], acc[i])]]

\* 05_calculate_classes.py:147-169: the three log_qa_check results.
QaChecks(rows) ==
    [all_have_classification |->
        \A i \in 1..Len(rows) : rows[i].bivariate_class # NA,
     all_have_colors |-> \A i \in 1..Len(rows) : rows[i].fill_color # NA,
     bivariate_distribution |->
        Cardinality({rows[i].bivariate_class : i \in 1..Len(rows)}) >= 6]

\* The analysis rows whose two metric columns are e and a.
AnalysisRows(e, a) ==
    [i \in 1..Len(e) |->
        [uhf_code |-> i, er_rate_5to17 |-> e[i], providers_per_10k |-> a[i]]]

InitClassify ==
    /\ classified = <<>>
    /\ qa = <<>>
    /\ IdleIO
    /\ IdleLater
    /\ er_under5 = <<>> /\ er_5to17 = <<>> /\ pop_data = <<>>
    /\ providers = <<>> /\ merged = <<>>
    /\ series = <<>> /\ reverse = FALSE /\ terciles = <<>>
    /\ \E e \in SeriesOver(NumClassified, MaxMetric),
          a \in SeriesOver(NumClassified, MaxMetric) : gdf = AnalysisRows(e, a)

\* One run of script 05 over the loaded analysis rows.
RunClassify ==
    /\ classified = <<>>
    /\ \E er \in {CalculateTerciles(Column(gdf, "er_rate_5to17"), FALSE)},
          acc \in {CalculateTerciles(Column(gdf, "providers_per_10k"), TRUE)} :
          classified' = Classify(gdf, er, acc)
    /\ qa' = QaChecks(classified')
    /\ UNCHANGED <<gdf, ioVars, mergeVars, tercileVars, laterVars>>

ValidErOnly(rows) == SelectSeq(rows, LAMBDA r : r.er_rate_5to17 # NaN)

\* 07_validation.py:62-65: the rows where both metrics are not missing.
Valid(rows) ==
    SelectSeq(rows, LAMBDA r : r.er_rate_5to17 # NaN /\ r.providers_per_10k # NaN)

Sign(n) == IF n < 0 THEN "negative" ELSE IF n = 0 THEN "zero" ELSE "positive"

\* stats.pearsonr(x, y), by its sign: the sign of the covariance, "nan" when
\* one of the two inputs is constant.
PearsonR(x, y) ==
    LET n == Len(x)
        xy == [i \in 1..n |-> x[i] * y[i]]
        xx == [i \in 1..n |-> x[i] * x[i]]
        yy == [i \in 1..n |-> y[i] * y[i]]
    IN  IF \/ n * SumSeq(xx) = SumSeq(x) * SumSeq(x)
           \/ n * SumSeq(yy) = SumSeq(y) * SumSeq(y)
        THEN "nan"
        ELSE Sign(n * SumSeq(xy) - SumSeq(x) * SumSeq(y))

\* The average ranks of x, doubled to stay in the integers.
Ranks(x) ==
    [i \in 1..Len(x) |->
        2 * Cardinality({j \in 1..Len(x) : x[j] < x[i]})
          + Cardinality({j \in 1..Len(x) : x[j] = x[i]}) + 1]

\* stats.spearmanr(x, y): Pearson's coefficient of the ranks.
SpearmanR(x, y) == PearsonR(Ranks(x), Ranks(y))

\* 07_validation.py:67-83: correlation_analysis(gdf) once it has the valid
\* rows; pearsonr raises ValueError when it is given fewer than two
\* observations.
CorrelationAnalysis(valid) ==
    IF Len(valid) < 2
    THEN [raised |-> TRUE, n_observations |-> NaN,
          pearson_r |-> "nan", spearman_rho |-> "nan"]
    ELSE [raised |-> FALSE,
          n_observations |-> Len(valid),
          pearson_r |-> PearsonR(Column(valid, "er_rate_5to17"),
                                 Column(valid, "providers_per_10k")),
          spearman_rho |-> SpearmanR(Column(valid, "er_rate_5to17"),
                                     Column(valid, "providers_per_10k"))]

\* 07_validation.py:309-320: script 07 loads the classified rows and runs
\* the correlation analysis on them.
RunCorrelation ==
    /\ classified # <<>>
    /\ report = <<>>
    /\ \E valid \in {Valid(classified)} : report' = CorrelationAnalysis(valid)
    /\ UNCHANGED <<holc, saved, classVars, ioVars, mergeVars, tercileVars,
                   exportVars, aggregateVars, populationVars, geocodeVars,
                   utilVars>>

\* nyc_holc_redlining.geojson: not there, or there with zones of the grades
\* listed.
HolcFiles ==
    {[exists |-> FALSE, grades |-> {}]}
        \cup {[exists |-> TRUE, grades |-> g] : g \in SUBSET {"A", "D"}}

\* Python's None, written as null by json.dump.
None == [null |-> TRUE]

RedliningAnalysisZero(rows, h) ==
    IF ~h.exists \/ "D" \notin h.grades
    THEN [null |-> FALSE, total_neighborhoods |-> 0]
    ELSE [null |-> FALSE, total_neighborhoods |-> Len(rows)]

\* 07_validation.py:40-54 and 162-241: load_redlining_data returns None
\* when the file does not exist and redlining_analysis returns None for it,
\* as it does when the file has no grade D zone.
RedliningAnalysis(rows, h) ==
    IF ~h.exists THEN None
    ELSE IF "D" \notin h.grades THEN None
    ELSE [null |-> FALSE, total_neighborhoods |-> Len(rows)]

\* 07_validation.py:104-159 failure_zone_ttest, by its group counts.
FailureZoneTtest(rows) ==
    [null |-> FALSE,
     failure_count |-> Len(SelectSeq(rows, LAMBDA r : r.is_failure_zone)),
     other_count |-> Len(SelectSeq(rows, LAMBDA r : ~r.is_failure_zone))]

\* 07_validation.py:318-323 and 243-261: after the correlation main() runs
\* the t-test and the redlining analysis and saves the three sections.  The
\* overlay file is read at line 315; nothing before this step depends on it.
RunSaveReport ==
    /\ report # <<>>
    /\ ~report.raised
    /\ saved = <<>>
    /\ \E h \in HolcFiles :
          /\ holc' = h
          /\ saved' = [correlation_analysis |-> report,
                       ttest_analysis |-> FailureZoneTtest(classified),
                       redlining_analysis |-> RedliningAnalysis(classified, h)]
    /\ UNCHANGED <<report, classVars, ioVars, mergeVars, tercileVars,
                   exportVars, aggregateVars, populationVars, geocodeVars,
                   utilVars>>

NextClassify == RunClassify

ClassifySpec == InitClassify /\ [][NextClassify]_vars

MaxObserved == 1   \* the metrics of a validated record set are 0..MaxObserved

\* Script 07 starts from the record set script 05 produced from its input.
InitValidation ==
    /\ IdleIO
    /\ IdleLater
    /\ er_under5 = <<>> /\ er_5to17 = <<>> /\ pop_data = <<>>
    /\ providers = <<>> /\ merged = <<>>
    /\ series = <<>> /\ reverse = FALSE /\ terciles = <<>>
    /\ \E e \in SeriesOver(NumClassified, MaxObserved),
          a \in SeriesOver(NumClassified, MaxObserved) :
          \E er \in {CalculateTerciles(e, FALSE)},
             acc \in {CalculateTerciles(a, TRUE)} :
             /\ gdf = AnalysisRows(e, a)
             /\ classified = Classify(gdf, er, acc)
             /\ qa = QaChecks(classified)

NextValidation == RunCorrelation \/ RunSaveReport

ValidationSpec == InitValidation /\ [][NextValidation]_vars

NullTercile(r) == r.er_tercile = NaN \/ r.access_tercile = NaN

\* C6: every neighborhood receives a non-null class and a non-null fill
\* color, and a neighborhood whose ER or access tercile is absent makes the
\* classification QA check fail instead of silently getting a class string.
C6_NullTercileSurfaced ==
    classified # <<>> =>
        /\ \A i \in 1..Len(classified) :
              classified[i].bivariate_class # NA /\ classified[i].fill_color # NA
        /\ (\E i \in 1..Len(classified) : NullTercile(classified[i]))
              => ~qa.all_have_classification

\* C7: is_failure_zone is true exactly when er_tercile = 3 and
\* access_tercile = 3; a neighborhood with a null tercile is never a
\* failure zone.
C7_FailureZoneIffBothThree ==
    \A i \in 1..Len(classified) :
        /\ classified[i].is_failure_zone <=>
              (classified[i].er_tercile = 3 /\ classified[i].access_tercile = 3)
        /\ NullTercile(classified[i]) => ~classified[i].is_failure_zone

\* The classifier found a failure zone, a neighborhood with no ER tercile
\* whose access tercile is 3, and a neighborhood with both terciles that is
\* no failure zone.
C7_Witness ==
    /\ \E i \in 1..Len(classified) : classified[i].is_failure_zone
    /\ \E i \in 1..Len(classified) :
          /\ classified[i].er_tercile = NaN
          /\ classified[i].access_tercile = 3
    /\ \E i \in 1..Len(classified) :
          /\ ~NullTercile(classified[i])
          /\ ~classified[i].is_failure_zone

\* C12: for every neighborhood whose two terciles are non-null,
\* bivariate_class is the integer er_tercile, a hyphen and the integer
\* access_tercile, one of the nine keys of the color table, whether or not
\* another neighborhood of the run has a null metric.
C12_ClassIsIntegerCode ==
    \A i \in 1..Len(classified) :
        ~NullTercile(classified[i]) =>
            /\ classified[i].bivariate_class =
                  ToString(classified[i].er_tercile) \o "-"
                      \o ToString(classified[i].access_tercile)
            /\ classified[i].bivariate_class \in DOMAIN colors

\* C13: is_at_risk is true exactly when (er_tercile = 3 and access_tercile
\* = 2) or (er_tercile = 2 and access_tercile = 3); no neighborhood is both
\* a failure zone and at risk.
C13_AtRiskIffRule ==
    \A i \in 1..Len(classified) :
        /\ classified[i].is_at_risk <=>
              \/ classified[i].er_tercile = 3 /\ classified[i].access_tercile = 2
              \/ classified[i].er_tercile = 2 /\ classified[i].access_tercile = 3
        /\ ~(classified[i].is_at_risk /\ classified[i].is_failure_zone)

\* The classifier found an at-risk neighborhood and a failure zone in the
\* same run.
C13_Witness ==
    /\ \E i \in 1..Len(classified) :
          classified[i].is_at_risk /\ classified[i].er_tercile = 2
    /\ \E i \in 1..Len(classified) : classified[i].is_failure_zone

(***************************************************************************)
(* PART 5.  The spatial joins of scripts 02 and 03.  The city is a line:   *)
(* neighborhood c is the segment from 2(c-1) to 2c, neighbors share their  *)
(* end point, the citywide polygon (code 0) covers them all, and a point   *)
(* is a position 0..2*NumUHF+1: odd positions lie inside a neighborhood,   *)
(* even ones on a boundary, the last one outside the city.                 *)
(***************************************************************************)
MaxTracts == 2   \* census tracts in the tract boundary file

Positions == 0..(2 * NumUHF + 1)

\* uhf42_boundaries.geojson: the features with their geometry.
Geometry(code) ==
    IF code = 0 THEN [lo |-> 0, hi |-> 2 * NumUHF]
    ELSE [lo |-> 2 * (code - 1), hi |-> 2 * code]
UhfBoundaries ==
    [i \in 1..Len(BaseGeography) |->
        [GEOCODE |-> BaseGeography[i].GEOCODE,
         geometry |-> Geometry(BaseGeography[i].GEOCODE)]]

\* uhf_gdf[uhf_gdf["GEOCODE"] != 0]
RemoveCitywide(features) == SelectSeq(features, LAMBDA f : f.GEOCODE # 0)

WithinOrTouching(x, g) == g.lo <= x /\ x <= g.hi

\* predicate="within": the point lies in the interior of the polygon.
Within(x, g) == g.lo < x /\ x < g.hi

\* gpd.sjoin(left, right, how="left", predicate="within"): one row for
\* every polygon a left point lies within, and one row with a missing
\* GEOCODE for a point that lies within none.
RECURSIVE SJoin(_, _)
SJoin(left, right) ==
    IF left = <<>> THEN <<>>
    ELSE LET row == Head(left)
             hits == SelectSeq(right, LAMBDA f : Within(row.geometry, f.geometry))
         IN  (IF hits = <<>> THEN <<row @@ [GEOCODE |-> NaN]>>
              ELSE [k \in 1..Len(hits) |-> row @@ [GEOCODE |-> hits[k].GEOCODE]])
             \o SJoin(Tail(left), right)

\* 03_process_population.py:199-200: a tract without a population row gets
\* child_population 0.
FillTractPopulation(rows) ==
    [i \in 1..Len(rows) |->
        [rows[i] EXCEPT !.child_population = FillNa0(@)]]

\* 03_process_population.py:229-235: groupby GEOCODE, sum and count; rows
\* with a missing GEOCODE belong to no group.
AggregateByUhf(rows) ==
    LET codes == {rows[k].GEOCODE : k \in 1..Len(rows)} \ {NaN}
        keys == SelectSeq([c \in 1..NumUHF |-> c], LAMBDA c : c \in codes)
        In(c) == SelectSeq(rows, LAMBDA r : r.GEOCODE = c)
    IN  [i \in 1..Len(keys) |->
           [uhf_code |-> keys[i],
            child_population |-> SumSeq(Column(In(keys[i]), "child_population")),
            tract_count |-> Len(In(keys[i]))]]

\* The population of tract i: a different power of two for each tract.
TractPopulation(i) == 100 * (2 ^ (i - 1))

TractRows ==
    UNION {[1..n -> [geometry : Positions, known : BOOLEAN]] : n \in 1..MaxTracts}

InitPopulation ==
    /\ IdleIO
    /\ IdleRest
    /\ IdleExport /\ IdleAggregate /\ IdleGeocode /\ IdleValidation /\ IdleUtil
    /\ joined = <<>> /\ unmatched = 0 /\ uhf_population = <<>>
    /\ \E t \in TractRows :
          tracts = [i \in 1..Len(t) |->
                      [tract_geoid |-> i,
                       geometry |-> t[i].geometry,
                       child_population |->
                          IF t[i].known THEN TractPopulation(i) ELSE NaN]]

\* 03_process_population.py:199-240: script 03 from the tract table to the
\* neighborhood populations.
RunPopulation ==
    /\ joined = <<>>
    /\ joined' = SJoin(FillTractPopulation(tracts), RemoveCitywide(UhfBoundaries))
    /\ unmatched' = Len(SelectSeq(joined', LAMBDA r : r.GEOCODE = NaN))
    /\ uhf_population' = AggregateByUhf(joined')
    /\ UNCHANGED <<tracts, ioVars, mergeVars, tercileVars, classVars,
                   exportVars, aggregateVars, geocodeVars, validationVars,
                   utilVars>>

NextPopulation == RunPopulation

PopulationSpec == InitPopulation /\ [][NextPopulation]_vars

\* The neighborhoods whose polygon has the point in its interior.
Containing(x) == {c \in UHFCodes : 2 * (c - 1) < x /\ x < 2 * c}
AssignedTo(c) ==
    {i \in 1..Len(tracts) :
        \E k \in 1..Len(joined) :
            joined[k].tract_geoid = i /\ joined[k].GEOCODE = c}
RECURSIVE SumOver(_, _)
SumOver(S, f) ==
    IF S = {} THEN 0
    ELSE LET x == CHOOSE y \in S : TRUE IN f[x] + SumOver(S \ {x}, f)

\* C18: each tract is assigned to at most one neighborhood; a tract whose
\* centroid lies in no neighborhood polygon, or on a boundary, is left
\* unassigned, is in no neighborhood sum and is counted as unmatched; and
\* each neighborhood's child_population is the sum over exactly the tracts
\* assigned to it.
C18_TractsAssignedOnce ==
    joined # <<>> =>
        /\ \A i \in 1..Len(tracts) :
              /\ Cardinality({c \in UHFCodes : i \in AssignedTo(c)}) <= 1
              /\ Containing(tracts[i].geometry) = {} =>
                    \A c \in UHFCodes : i \notin AssignedTo(c)
              /\ \A c \in Containing(tracts[i].geometry) : i \in AssignedTo(c)
        /\ unmatched =
              Cardinality({i \in 1..Len(tracts) : Containing(tracts[i].geometry) = {}})
        /\ \A c \in UHFCodes :
              AssignedTo(c) # {} =>
                 \E k \in 1..Len(uhf_population) :
                    /\ uhf_population[k].uhf_code = c
                    /\ uhf_population[k].child_population =
                          SumOver(AssignedTo(c),
                                  [i \in 1..Len(tracts) |->
                                      FillNa0(tracts[i].child_population)])
        /\ \A k \in 1..Len(uhf_population) :
              AssignedTo(uhf_population[k].uhf_code) # {}

\* Script 03 ran with a tract inside a neighborhood and a tract whose
\* centroid is on the boundary between two neighborhoods.
C18_Witness ==
    /\ joined # <<>>
    /\ unmatched = 1
    /\ \E i \in 1..Len(tracts) : tracts[i].geometry = 2
    /\ \E k \in 1..Len(uhf_population) : uhf_population[k].child_population > 0

(***************************************************************************)
(* Script 02: the raw provider list is filtered to NY, every provider is   *)
(* geocoded (the geocoder answers with a position or fails), the geocoded  *)
(* points are joined to the neighborhood polygons and the codes are merged *)
(* back onto the full table.                                               *)
(***************************************************************************)
MaxRaw == 3   \* providers in npi_providers_raw.json

States == {"NY", "NJ"}

\* 02_geocode_providers.py:139
FilterNY(ps) == SelectSeq(ps, LAMBDA p : p.state = "NY")

\* 02_geocode_providers.py:149-208: one record per provider, with the
\* position the geocoder returned or a missing one.
GeocodeAll(ps) ==
    [i \in 1..Len(ps) |->
        [npi |-> ps[i].npi,
         lat_lon |-> ps[i].location,
         geocode_success |-> ps[i].location # NaN]]

\* 02_geocode_providers.py:218-220
ProvidersGdf(df) ==
    LET ok == SelectSeq(df, LAMBDA r : r.geocode_success)
    IN  [i \in 1..Len(ok) |-> [npi |-> ok[i].npi, geometry |-> ok[i].lat_lon]]

\* An inner merge: the providers without a mapping row are lost.
RECURSIVE MergeUhfMappingInner(_, _)
MergeUhfMappingInner(df, mapping) ==
    IF df = <<>> THEN <<>>
    ELSE LET row == Head(df)
             hits == SelectSeq(mapping, LAMBDA m : m.npi = row.npi)
         IN  [k \in 1..Len(hits) |-> row @@ [uhf_code |-> hits[k].GEOCODE]]
             \o MergeUhfMappingInner(Tail(df), mapping)

\* 02_geocode_providers.py:227-230: df.merge(uhf_mapping, on="npi",
\* how="left").
RECURSIVE MergeUhfMapping(_, _)
MergeUhfMapping(df, mapping) ==
    IF df = <<>> THEN <<>>
    ELSE LET row == Head(df)
             hits == SelectSeq(mapping, LAMBDA m : m.npi = row.npi)
         IN  (IF hits = <<>> THEN <<row @@ [uhf_code |-> NaN]>>
              ELSE [k \in 1..Len(hits) |-> row @@ [uhf_code |-> hits[k].GEOCODE]])
             \o MergeUhfMapping(Tail(df), mapping)

RawProviders ==
    UNION {[1..n -> [state : States, location : Positions \cup {NaN}]] :
              n \in 0..MaxRaw}

InitGeocode ==
    /\ IdleIO
    /\ IdleRest
    /\ IdleExport /\ IdleAggregate /\ IdlePopulation /\ IdleValidation /\ IdleUtil
    /\ geocoded = <<>>
    /\ \E raw \in RawProviders :
          npi_providers = [i \in 1..Len(raw) |->
                              [npi |-> i,
                               state |-> raw[i].state,
                               location |-> raw[i].location]]

\* 02_geocode_providers.py:131-235: script 02 from the raw list to the
\* geocoded table.  With no NY provider the table has no columns and
\* df["geocode_success"] raises KeyError.
RunGeocode ==
    /\ geocoded = <<>>
    /\ \E df \in {GeocodeAll(FilterNY(npi_providers))} :
          geocoded' =
             IF df = <<>> THEN [raised |-> TRUE, rows |-> <<>>]
             ELSE [raised |-> FALSE,
                   rows |-> MergeUhfMapping(df,
                               SJoin(ProvidersGdf(df), RemoveCitywide(UhfBoundaries)))]
    /\ UNCHANGED <<npi_providers, ioVars, mergeVars, tercileVars, classVars,
                   exportVars, aggregateVars, populationVars, validationVars,
                   utilVars>>

NextGeocode == RunGeocode

GeocodeSpec == InitGeocode /\ [][NextGeocode]_vars

RowsFor(i) ==
    Cardinality({k \in 1..Len(geocoded.rows) :
                    geocoded.rows[k].npi = npi_providers[i].npi})
CodesConsistent ==
    \A k \in 1..Len(geocoded.rows) :
        LET r == geocoded.rows[k]
        IN  /\ r.lat_lon = NaN => r.uhf_code = NaN
            /\ r.lat_lon # NaN =>
                  IF Containing(r.lat_lon) = {} THEN r.uhf_code = NaN
                  ELSE Containing(r.lat_lon) = {r.uhf_code}

\* C19 as stated: in the geocoded provider table every input provider
\* appears exactly once; a provider with a null location has a null
\* neighborhood code, and a provider with a location has at most one
\* neighborhood code, null when its point lies outside all polygons.
C19_EveryInputProviderOnce ==
    (geocoded # <<>> /\ ~geocoded.raised) =>
        /\ \A i \in 1..Len(npi_providers) : RowsFor(i) = 1
        /\ CodesConsistent

\* C19 as the code has it: every input provider whose state is NY appears
\* exactly once and every other input provider is absent; a provider with a
\* null location has a null neighborhood code, and a provider with a
\* location has the code of the one polygon its point lies within, null
\* when it lies within none.
C19_EveryNyProviderOnce ==
    (geocoded # <<>> /\ ~geocoded.raised) =>
        /\ \A i \in 1..Len(npi_providers) :
              RowsFor(i) = IF npi_providers[i].state = "NY" THEN 1 ELSE 0
        /\ CodesConsistent

\* The table was written from a list with a provider outside NY, a NY
\* provider whose geocoding failed and a NY provider inside a neighborhood.
C19_Witness ==
    /\ geocoded # <<>>
    /\ ~geocoded.raised
    /\ \E i \in 1..Len(npi_providers) : npi_providers[i].state = "NJ"
    /\ \E k \in 1..Len(geocoded.rows) : geocoded.rows[k].lat_lon = NaN
    /\ \E k \in 1..Len(geocoded.rows) : geocoded.rows[k].uhf_code # NaN

(***************************************************************************)
(* The statistical validator, scripts/07_validation.py.                    *)
(***************************************************************************)
\* The positions of the classified rows that have both metrics.
BothMetrics ==
    {i \in 1..Len(classified) :
        classified[i].er_rate_5to17 # NaN /\ classified[i].providers_per_10k # NaN}
\* The values of a column at the positions S, in row order.
RECURSIVE Pick(_, _, _)
Pick(S, col, i) ==
    IF i > Len(classified) THEN <<>>
    ELSE (IF i \in S THEN <<classified[i][col]>> ELSE <<>>) \o Pick(S, col, i + 1)

\* C20: correlation_analysis computes Pearson and Spearman over exactly the
\* neighborhoods where both er_rate_5to17 and providers_per_10k are
\* non-null and reports n_observations equal to their number; a
\* neighborhood with a null metric is still in the classified record set.
C20_CorrelationOverBothNonNull ==
    (report # <<>> /\ ~report.raised) =>
        /\ report.n_observations = Cardinality(BothMetrics)
        /\ report.pearson_r =
              PearsonR(Pick(BothMetrics, "er_rate_5to17", 1),
                       Pick(BothMetrics, "providers_per_10k", 1))
        /\ report.spearman_rho =
              SpearmanR(Pick(BothMetrics, "er_rate_5to17", 1),
                        Pick(BothMetrics, "providers_per_10k", 1))
        /\ Len(classified) = Len(gdf)
        /\ \A i \in 1..Len(gdf) : classified[i].uhf_code = gdf[i].uhf_code

\* The correlation was computed from a record set with a neighborhood
\* without ER rate, and came out negative.
C20_Witness ==
    /\ report # <<>>
    /\ ~report.raised
    /\ report.pearson_r = "negative"
    /\ \E i \in 1..Len(classified) :
          classified[i].er_rate_5to17 = NaN /\ classified[i].providers_per_10k # NaN

\* C21: when fewer than 2 neighborhoods have both metrics the validator
\* reports the statistic as undefined and completes the report; it never
\* raises.
C21_SmallGroupReportedUndefined ==
    report # <<>> =>
        /\ ~report.raised
        /\ Cardinality(BothMetrics) < 2 =>
              report.pearson_r = "nan" /\ report.spearman_rho = "nan"

\* C22: when the historical-overlay dataset is not supplied the report's
\* redlining section is the absent marker (null), not a zero-valued or
\* empty result, and the correlation and t-test sections are produced and
\* saved.
C22_MissingOverlayIsNull ==
    (saved # <<>> /\ ~holc.exists) =>
        /\ saved.redlining_analysis = None
        /\ saved.correlation_analysis = report
        /\ ~saved.correlation_analysis.raised
        /\ ~saved.ttest_analysis.null
        /\ saved.ttest_analysis.failure_count + saved.ttest_analysis.other_count
              = Len(classified)

\* A report was saved without the overlay file, for a record set with a
\* failure zone.
C22_Witness ==
    /\ saved # <<>>
    /\ ~holc.exists
    /\ saved.ttest_analysis.failure_count > 0

(***************************************************************************)
(* More on asthma_map/io_utils.py.                                         *)
(***************************************************************************)
\* The *.tmp files in the directory of a target.
TmpBeside(a) == {t \in tmpdir : t.target = a}
ReturnedWrite(p) ==
    Latest(p) /\ job[p].via = "atomic_write" /\ job[p].outcome = "returned"

MaxTmp == 2   \* *.tmp files directly in the directory

\* file1.tmp .. fileN.tmp, data.json, notes.tmp.bak, a file named tmp and
\* sub/nested.tmp.
SomeFiles ==
    {[stem |-> "file" \o ToString(i), suffix |-> ".tmp", sub |-> FALSE] :
        i \in 1..MaxTmp}
    \cup {[stem |-> "data", suffix |-> ".json", sub |-> FALSE],
          [stem |-> "notes.tmp", suffix |-> ".bak", sub |-> FALSE],
          [stem |-> "tmp", suffix |-> "", sub |-> FALSE],
          [stem |-> "nested", suffix |-> ".tmp", sub |-> TRUE]}

RglobTmp(files) == {f \in files : f.suffix = ".tmp"}

\* Path(directory).glob("*.tmp"): the entries directly in the directory
\* whose name ends in .tmp.
GlobTmp(files) == {f \in files : ~f.sub /\ f.suffix = ".tmp"}

\* The orders in which glob may yield the files of a set.
Orders(S) ==
    {q \in [1..Cardinality(S) -> S] :
        \A i, j \in 1..Cardinality(S) : i # j => q[i] # q[j]}

InitClean ==
    /\ IdleIO
    /\ IdleRest
    /\ IdleExport /\ IdleAggregate /\ IdlePopulation /\ IdleGeocode
    /\ IdleValidation /\ IdleFetch /\ IdleScript /\ IdleSidecar /\ IdleRun
    /\ removed = <<>>
    /\ listing \in SUBSET SomeFiles
    /\ dirfiles = listing

\* io_utils.py:71-77: one call of clean_tmp_files(directory).
CleanTmpFiles ==
    /\ removed = <<>>
    /\ \E order \in Orders(GlobTmp(dirfiles)) :
          /\ removed' = [paths |-> order]
          /\ dirfiles' = dirfiles \ {order[i] : i \in 1..Len(order)}
    /\ UNCHANGED <<listing, ioVars, mergeVars, tercileVars, classVars,
                   exportVars, aggregateVars, populationVars, geocodeVars,
                   validationVars, fetchVars, scriptVars, sidecarVars, runVars>>

NextClean == CleanTmpFiles

CleanSpec == InitClean /\ [][NextClean]_vars

EndsInTmp(f) == f.suffix = ".tmp"

\* C24: clean_tmp_files(directory) removes every file directly in the
\* directory whose name ends in .tmp, returns exactly the list of removed
\* paths, and leaves every other file under the directory in place.
C24_RemovesExactlyTmpFiles ==
    removed # <<>> =>
        /\ dirfiles \subseteq listing
        /\ \A f \in listing : f \notin dirfiles <=> (~f.sub /\ EndsInTmp(f))
        /\ {removed.paths[i] : i \in 1..Len(removed.paths)} = listing \ dirfiles
        /\ Len(removed.paths) = Cardinality(listing \ dirfiles)

\* A call removed two .tmp files from a directory that also holds
\* notes.tmp.bak and, in a subdirectory, nested.tmp.
C24_Witness ==
    /\ removed # <<>>
    /\ Len(removed.paths) = 2
    /\ \E f \in dirfiles : f.sub /\ EndsInTmp(f)
    /\ \E f \in dirfiles : f.suffix = ".bak"

(***************************************************************************)
(* write_metadata_sidecar, io_utils.py:80-109.  A dictionary is a function *)
(* from keys to values, every value written as a string; NoArg is Python's *)
(* None for an optional argument.                                          *)
(***************************************************************************)
NoArg == "None"

DataPaths ==
    {[parent |-> "processed", stem |-> "test_data", suffix |-> ".csv"],
     [parent |-> "final", stem |-> "uhf_classified", suffix |-> ".geojson"]}

\* Keyword arguments a caller may add: any identifier that is not the name
\* of a parameter.
ExtraKeys == {"census_year", "_run_id", "_script", "_version"}
Extras == UNION {[K -> {"extra value"}] : K \in SUBSET ExtraKeys}

SidecarCalls ==
    [data_path : DataPaths,
     script_name : {"test_script.py"},
     run_id : {"20241230_120000_abc12345"},
     description : {"Test data file"},
     inputs : {"input1.csv, input2.csv"},
     row_count : {NoArg, "100"},
     columns : {NoArg, "col1, col2, col3"},
     extra : Extras]

\* io_utils.py:93-107: the dictionary that is written.  dict.update(extra)
\* sets every key of extra, whether or not the dictionary has it already.
Metadata(c) ==
    LET base == [k \in {"_generated", "_script", "_run_id", "_version",
                        "description", "inputs"} |->
                    CASE k = "_generated" -> "now"
                      [] k = "_script" -> c.script_name
                      [] k = "_run_id" -> c.run_id
                      [] k = "_version" -> "0.1.0"
                      [] k = "description" -> c.description
                      [] k = "inputs" -> c.inputs]
        rows == IF c.row_count # NoArg
                THEN [k \in {"row_count"} |-> c.row_count] ELSE <<>>
        cols == IF c.columns # NoArg
                THEN [k \in {"columns"} |-> c.columns] ELSE <<>>
    IN  c.extra @@ cols @@ rows @@ base

\* io_utils.py:91
MetaPath(data_path) ==
    [parent |-> data_path.parent, stem |-> data_path.stem \o "_metadata",
     suffix |-> ".json"]

InitSidecar ==
    /\ IdleIO
    /\ IdleRest
    /\ IdleExport /\ IdleAggregate /\ IdlePopulation /\ IdleGeocode
    /\ IdleValidation /\ IdleFetch /\ IdleScript /\ IdleClean /\ IdleRun
    /\ sidecar = <<>>
    /\ sidecar_args \in SidecarCalls

\* io_utils.py:80-109: one call of write_metadata_sidecar that returns.
WriteMetadataSidecar ==
    /\ sidecar = <<>>
    /\ sidecar' = [path |-> MetaPath(sidecar_args.data_path),
                   metadata |-> Metadata(sidecar_args)]
    /\ UNCHANGED <<sidecar_args, ioVars, mergeVars, tercileVars, classVars,
                   exportVars, aggregateVars, populationVars, geocodeVars,
                   validationVars, fetchVars, scriptVars, cleanVars, runVars>>

NextSidecar == WriteMetadataSidecar

SidecarSpec == InitSidecar /\ [][NextSidecar]_vars

\* C25: write_metadata_sidecar writes at <data file's directory>/<data file
\* stem>_metadata.json and returns that path; the written metadata carries
\* _script, _run_id, description, inputs, row_count and columns equal to
\* the arguments passed (row_count and columns when they are given), plus
\* _generated and _version, for every combination of arguments including
\* extra keyword fields.
C25_SidecarCarriesArguments ==
    sidecar # <<>> =>
        LET c == sidecar_args
            m == sidecar.metadata
        IN  /\ sidecar.path.parent = c.data_path.parent
            /\ sidecar.path.stem = c.data_path.stem \o "_metadata"
            /\ sidecar.path.suffix = ".json"
            /\ {"_script", "_run_id", "description", "inputs", "_generated",
                 "_version"} \subseteq DOMAIN m
            /\ m["_script"] = c.script_name
            /\ m["_run_id"] = c.run_id
            /\ m["description"] = c.description
            /\ m["inputs"] = c.inputs
            /\ c.row_count # NoArg =>
                  "row_count" \in DOMAIN m /\ m["row_count"] = c.row_count
            /\ c.columns # NoArg =>
                  "columns" \in DOMAIN m /\ m["columns"] = c.columns
            /\ DOMAIN c.extra \subseteq DOMAIN m

(***************************************************************************)
(* The run identifier of a process, logging_utils.py:18-22 and 68-106.     *)
(* A script runs in one thread, so the calls happen one after another.     *)
(***************************************************************************)
MaxRunCalls == 4

ScriptNames == {"04_merge_datasets", "05_calculate_classes"}

\* A get_run_id that asks generate_run_id for an identifier on every call.
GetRunIdAlwaysNew ==
    [run_id |-> <<generated + 1>>, generated |-> generated + 1]

\* logging_utils.py:72-76.  generate_run_id (18-22) joins the clock and a
\* random uuid: its k-th result is written <<k>>, distinct from the others.
GetRunIdValue ==
    IF RUN_ID = <<>>
    THEN [run_id |-> <<generated + 1>>, generated |-> generated + 1]
    ELSE [run_id |-> RUN_ID, generated |-> generated]

InitRun ==
    /\ IdleIO
    /\ IdleRest
    /\ IdleExport /\ IdleAggregate /\ IdlePopulation /\ IdleGeocode
    /\ IdleValidation /\ IdleFetch /\ IdleScript /\ IdleClean /\ IdleSidecar
    /\ RUN_ID = <<>>
    /\ generated = 0
    /\ observed = <<>>
    /\ loggers = {}

\* logging_utils.py:72-76, called by a script (for a sidecar's run_id).
GetRunId ==
    /\ Len(observed) < MaxRunCalls
    /\ \E r \in {GetRunIdValue} :
          /\ RUN_ID' = r.run_id
          /\ generated' = r.generated
          /\ observed' = Append(observed,
                                [call |-> "get_run_id", script_name |-> "",
                                 run_id |-> r.run_id])
    /\ UNCHANGED <<loggers, ioVars, mergeVars, tercileVars, classVars,
                   exportVars, aggregateVars, populationVars, geocodeVars,
                   validationVars, fetchVars, scriptVars, cleanVars, sidecarVars>>

\* logging_utils.py:79-106: the logger is named after the script and the
\* run id; its JSONL handler is created, with the run id, only when the
\* logger has no handlers yet.
GetLogger(script_name) ==
    /\ Len(observed) < MaxRunCalls
    /\ \E r \in {GetRunIdValue} :
          /\ RUN_ID' = r.run_id
          /\ generated' = r.generated
          /\ observed' = Append(observed,
                                [call |-> "get_logger", script_name |-> script_name,
                                 run_id |-> r.run_id])
          /\ loggers' =
                IF \E l \in loggers : l.name = <<script_name, r.run_id>>
                THEN loggers
                ELSE loggers \cup {[name |-> <<script_name, r.run_id>>,
                                    handler_run_id |-> r.run_id]}
    /\ UNCHANGED <<ioVars, mergeVars, tercileVars, classVars,
                   exportVars, aggregateVars, populationVars, geocodeVars,
                   validationVars, fetchVars, scriptVars, cleanVars, sidecarVars>>

NextRun ==
    \/ GetRunId
    \/ \E script_name \in ScriptNames : GetLogger(script_name)

RunSpec == InitRun /\ [][NextRun]_vars

\* C26: within one process the run identifier is generated once, by the
\* first call; every get_run_id and get_logger call, in any order and any
\* number of times, observes that identifier, and every JSONL handler
\* carries it.
C26_OneRunIdPerProcess ==
    /\ generated <= 1
    /\ observed # <<>> => RUN_ID = observed[1].run_id /\ generated = 1
    /\ \A i \in DOMAIN observed : observed[i].run_id = observed[1].run_id
    /\ \A l \in loggers : l.handler_run_id = RUN_ID

C26_Witness ==
    /\ Len(observed) >= 3
    /\ observed[1].call = "get_logger"
    /\ \E i \in DOMAIN observed : observed[i].call = "get_run_id"
    /\ Cardinality(loggers) = 2
(***************************************************************************)
(* One run of a pipeline script that writes data and then a metadata       *)
(* sidecar: the main functions of scripts 01 to 06.                        *)
(***************************************************************************)
\* The data writes of each script's main, in program order, and the data
\* file its sidecar describes.
SidecarScripts ==
    {[script_name |-> "01_fetch_providers.py",
      data |-> <<[path |-> "npi_providers_raw.json", how |-> "atomic_write"]>>,
      sidecar_of |-> "npi_providers_raw.json"],
     [script_name |-> "02_geocode_providers.py",
      data |-> <<[path |-> "providers_geocoded.csv", how |-> "atomic_write"]>>,
      sidecar_of |-> "providers_geocoded.csv"],
     [script_name |-> "03_process_population.py",
      data |-> <<[path |-> "child_population_by_uhf.csv", how |-> "atomic_write"]>>,
      sidecar_of |-> "child_population_by_uhf.csv"],
     [script_name |-> "04_merge_datasets.py",
      data |-> <<[path |-> "uhf_analysis_data.geojson", how |-> "atomic_write"]>>,
      sidecar_of |-> "uhf_analysis_data.geojson"],
     [script_name |-> "05_calculate_classes.py",
      data |-> <<[path |-> "uhf_classified.geojson", how |-> "atomic_write"]>>,
      sidecar_of |-> "uhf_classified.geojson"],
     [script_name |-> "06_export_for_web.py",
      data |-> <<[path |-> "neighborhoods.geojson", how |-> "open"],
                 [path |-> "providers.geojson", how |-> "open"],
                 [path |-> "stats.json", how |-> "atomic_write"]>>,
      sidecar_of |-> "neighborhoods.geojson"]}

\* The sidecar an earlier run left beside each data file it wrote.
SidecarsBefore == [a \in Artifacts |-> IF fs[a] = Absent THEN "none"
                                       ELSE "previous run"]

InitScript ==
    /\ InitIO
    /\ IdleRest
    /\ IdleExport /\ IdleAggregate /\ IdlePopulation /\ IdleGeocode
    /\ IdleValidation /\ IdleFetch /\ IdleClean /\ IdleSidecar /\ IdleRun
    /\ \E s \in SidecarScripts :
          script = [script_name |-> s.script_name, data |-> s.data,
                    sidecar_of |-> s.sidecar_of, done |-> 0, step |-> "write"]
    /\ sidecars = SidecarsBefore

ScriptOthers ==
    <<mergeVars, tercileVars, classVars, exportVars, aggregateVars,
      populationVars, geocodeVars, validationVars, fetchVars, cleanVars, sidecarVars,
      runVars>>

\* main reaches its next data write (01:226, 02:255, 03:260, 04:231,
\* 05:186, 06:110,177,239).
ScriptWriteData ==
    /\ script.step = "write"
    /\ script.done < Len(script.data)
    /\ LET w == script.data[script.done + 1]
       IN  IF w.how = "atomic_write"
           THEN AtomicWriteCall(1, w.path)
           ELSE OpenForWrite(1, w.path)
    /\ script' = [script EXCEPT !.step = "writing"]
    /\ UNCHANGED <<sidecars, ScriptOthers>>

\* The write in progress takes one step.
ScriptWriteStep ==
    /\ script.step = "writing"
    /\ \/ Mkstemp(1)
       \/ MkstempFails(1)
       \/ WriteFuncStep(1)
       \/ WriteFuncReturns(1)
       \/ \E exc \in {"Exception", "BaseException"} : WriteFuncRaises(1, exc)
       \/ Replace(1)
       \/ ReplaceFails(1)
       \/ ExceptCleanup(1)
       \/ DumpStep(1)
       \/ DumpRaises(1)
       \/ CloseFile(1)
    /\ UNCHANGED <<script, sidecars, ScriptOthers>>

\* The write returned: main goes on to the next statement.
ScriptDataReturned ==
    /\ script.step = "writing"
    /\ pc[1] = "idle"
    /\ job[1].outcome = "returned"
    /\ script' = [script EXCEPT
                    !.done = @ + 1,
                    !.step = IF script.done + 1 = Len(script.data)
                             THEN "sidecar" ELSE "write"]
    /\ UNCHANGED <<ioVars, sidecars, ScriptOthers>>

\* A main that catches the error of the data write and carries on.
ScriptDataRaisedCaught ==
    /\ script.step = "writing"
    /\ pc[1] = "idle"
    /\ job[1].outcome = "raised"
    /\ script' = [script EXCEPT !.step = "sidecar"]
    /\ UNCHANGED <<ioVars, sidecars, ScriptOthers>>

\* The write raised: no try statement of main encloses the call, the error
\* ends the run.
ScriptDataRaised ==
    /\ script.step = "writing"
    /\ pc[1] = "idle"
    /\ job[1].outcome = "raised"
    /\ script' = [script EXCEPT !.step = "aborted"]
    /\ UNCHANGED <<ioVars, sidecars, ScriptOthers>>

\* write_metadata_sidecar (01:230, 02:259, 03:264, 04:235, 05:190, 06:244)
\* returns: the sidecar of the data file carries this run's id.
ScriptWriteSidecar ==
    /\ script.step = "sidecar"
    /\ sidecars' = [sidecars EXCEPT ![script.sidecar_of] = "this run"]
    /\ script' = [script EXCEPT !.step = "done"]
    /\ UNCHANGED <<ioVars, ScriptOthers>>

\* write_metadata_sidecar raises: atomic_write left the sidecar as it was.
ScriptSidecarRaises ==
    /\ script.step = "sidecar"
    /\ script' = [script EXCEPT !.step = "aborted"]
    /\ UNCHANGED <<ioVars, sidecars, ScriptOthers>>

NextScript ==
    \/ ScriptWriteData
    \/ ScriptWriteStep
    \/ ScriptDataReturned
    \/ ScriptDataRaised
    \/ ScriptWriteSidecar
    \/ ScriptSidecarRaises

ScriptSpec == InitScript /\ [][NextScript]_vars

\* Every data write of the script returned and left a whole file written
\* by this run.
DataWritten ==
    /\ script.done = Len(script.data)
    /\ \A i \in DOMAIN script.data :
          /\ IsWhole(fs[script.data[i].path])
          /\ fs[script.data[i].path].ver \in CallIds

\* C27: in every script that writes data and a sidecar, the sidecar is
\* written only after the data was written successfully; if a data write
\* raises, no sidecar is created or replaced in that run, so no sidecar
\* carries the run id of a run whose data write failed.
C27_SidecarOnlyAfterData ==
    /\ (\E a \in Artifacts : sidecars[a] = "this run") => DataWritten
    /\ (script # <<>> /\ job[1].failed) =>
          \A a \in Artifacts : sidecars[a] \in {"none", "previous run"}

C27_Witness ==
    /\ script # <<>>
    /\ script.step = "done"
    /\ sidecars[script.sidecar_of] = "this run"
    /\ job[1].before # Absent
(***************************************************************************)
(* fetch_npi_providers, 01_fetch_providers.py:38-93.  The registry holds   *)
(* the providers 1..n and answers a request with the page at the requested *)
(* skip offset; a request may fail instead.                                *)
(***************************************************************************)
MaxRegistry == 4   \* matching providers in the registry
MaxLimit == 2      \* page limit of a call

Registries ==
    [n : 0..MaxRegistry, limit : 1..MaxLimit,
     has_count : BOOLEAN,   \* the responses carry the total as result_count
     logger : BOOLEAN]      \* the caller passed a logger

\* The "results" of the response to a request with the given skip and limit.
PageAt(n, sk, limit) ==
    [i \in 1..(IF sk >= n THEN 0
               ELSE IF n - sk < limit THEN n - sk ELSE limit) |-> sk + i]

\* 01:76: data.get("result_count", 0)
ResultCount(r) == IF r.has_count THEN r.n ELSE 0

InitFetch ==
    /\ IdleIO
    /\ IdleRest
    /\ IdleExport /\ IdleAggregate /\ IdlePopulation /\ IdleGeocode
    /\ IdleValidation /\ IdleClean /\ IdleSidecar /\ IdleRun /\ IdleScript
    /\ registry \in Registries
    /\ skip = 0
    /\ all_results = <<>>
    /\ fetched = <<>>

FetchOthers ==
    <<ioVars, mergeVars, tercileVars, classVars, exportVars, aggregateVars,
      populationVars, geocodeVars, validationVars, cleanVars, sidecarVars,
      runVars, scriptVars>>

\* 01:56-93: one iteration of the loop whose request succeeds.
FetchPage ==
    /\ registry # <<>>
    /\ fetched = <<>>
    /\ \E results \in {PageAt(registry.n, skip, registry.limit)} :
          IF results = <<>>
          THEN /\ fetched' = [failed |-> FALSE, raised |-> FALSE,
                              value |-> all_results]
               /\ UNCHANGED <<all_results, skip>>
          ELSE /\ all_results' = all_results \o results
               /\ IF \/ Len(all_results') >= ResultCount(registry)
                     \/ Len(results) < registry.limit
                  THEN /\ fetched' = [failed |-> FALSE, raised |-> FALSE,
                                      value |-> all_results']
                       /\ skip' = skip
                  ELSE /\ skip' = skip + registry.limit
                       /\ fetched' = fetched
    /\ UNCHANGED <<registry, FetchOthers>>

\* 01:66-73: the request raises requests.RequestException.  With a logger
\* the handler evaluates the f-string of line 72, which names
\* taxonomy_code: no such name exists in the function or the module, so
\* NameError leaves the function.  Without a logger the loop breaks and
\* line 93 returns all_results.
RequestFails ==
    /\ registry # <<>>
    /\ fetched = <<>>
    /\ fetched' = IF registry.logger
                  THEN [failed |-> TRUE, raised |-> TRUE, value |-> <<>>]
                  ELSE [failed |-> TRUE, raised |-> FALSE,
                        value |-> all_results]
    /\ UNCHANGED <<registry, skip, all_results, FetchOthers>>

NextFetch == FetchPage \/ RequestFails

FetchSpec == InitFetch /\ [][NextFetch]_vars

\* C28: when a request fails inside fetch_npi_providers, on the first page
\* or a later one, the function returns the results accumulated so far
\* without raising, whether or not a logger was passed.
C28_FailureReturnsAccumulated ==
    (fetched # <<>> /\ fetched.failed) =>
        ~fetched.raised /\ fetched.value = all_results

\* C29: when every request is answered, the loop ends having returned all
\* n providers of the registry, each exactly once, also when n is an exact
\* multiple of the limit and when the responses carry no result_count.
C29_ReturnsEveryProviderOnce ==
    (fetched # <<>> /\ ~fetched.failed) =>
        fetched.value = [i \in 1..registry.n |-> i]

(***************************************************************************)
(* Interleaved atomic_write calls on one target (io_utils.py:17-40): two   *)
(* processes, or two runs of a script started at the same time, each make  *)
(* one call; the steps of the calls interleave in every order.             *)
(***************************************************************************)
Writers == 1..NumWriters

InitConcurrent ==
    /\ fs \in {[a \in Artifacts |-> Absent], [a \in Artifacts |-> PreviousRun]}
    /\ tmpdir = {}
    /\ pc = [p \in Writers |-> "idle"]
    /\ job = [p \in Writers |-> NoJob]
    /\ calls = 0
    /\ IdleRest
    /\ IdleLater

\* Targets two runs can write at once: the outputs of scripts 05 and 06
\* that go through atomic_write.
ConcurrentTargets ==
    {w.path : w \in {v \in Writes05 \cup Writes06 : v.how = "atomic_write"}}

\* The target of the calls made so far.
TargetsInUse == {job[p].target : p \in {q \in Writers : job[q] # NoJob}}

\* One step of one writer; a writer's call is on the target the others use.
NextConcurrent ==
    \/ \E p \in Writers, a \in ConcurrentTargets :
          /\ job[p] = NoJob
          /\ TargetsInUse \subseteq {a}
          /\ AtomicWriteCall(p, a)
          /\ UNCHANGED <<mergeVars, tercileVars, classVars, laterVars>>
    \/ \E p \in Writers :
          /\ \/ Mkstemp(p)
             \/ MkstempFails(p)
             \/ WriteFuncStep(p)
             \/ WriteFuncReturns(p)
             \/ \E exc \in {"Exception", "BaseException"} : WriteFuncRaises(p, exc)
             \/ Replace(p)
             \/ ReplaceFails(p)
             \/ ExceptCleanup(p)
          /\ UNCHANGED <<mergeVars, tercileVars, classVars, laterVars>>

ConcurrentSpec == InitConcurrent /\ [][NextConcurrent]_vars

\* The writer is between mkstemp and the end of its call.
HoldsTmp(p) == pc[p] \in {"write", "replace", "except"}

\* In a state: writers inside a call hold different temp files, and each
\* one's temp file exists until it renames or unlinks it itself; once every
\* writer has returned, the target is the whole file of one of them and no
\* temp file remains.
InterleavedState ==
    /\ \A p, q \in Writers :
          (p # q /\ HoldsTmp(p) /\ HoldsTmp(q)) => job[p].id # job[q].id
    /\ \A p \in Writers :
          HoldsTmp(p) => Cardinality(TmpOf(job[p].id)) = 1
    /\ (\A p \in Writers : job[p].outcome = "returned") =>
          /\ tmpdir = {}
          /\ \A a \in TargetsInUse :
                \E p \in Writers : fs[a] = WholeFile(job[p].id)

\* In a step: a writer's temp file changes (grows, is renamed away or
\* unlinked) only in a step that belongs to that writer alone.
InterleavedStep ==
    \A p, q \in Writers :
        (/\ p # q
         /\ HoldsTmp(p)
         /\ {t \in tmpdir' : t.id = job[p].id} # TmpOf(job[p].id))
        => (/\ pc'[q] = pc[q]
            /\ job'[q] = job[q]
            /\ {t \in tmpdir' : t.id = job[q].id} = TmpOf(job[q].id))

\* C30: atomic_write calls on the same target that interleave in any order
\* use distinct temp files, neither writes into or deletes the other's
\* temp file, and after both returned the target holds the complete
\* content of exactly one of them and no temp file remains.
C30_InterleavedWritesKeepApart ==
    []InterleavedState /\ [][InterleavedStep]_vars

\* The call that began first renamed last, over the other's whole file.
C30_Witness ==
    /\ \A p \in Writers : job[p].outcome = "returned"
    /\ \E p, q \in Writers :
          /\ job[p].id < job[q].id
          /\ fs[job[p].target] = WholeFile(job[p].id)
====
